---- MODULE Spec2Model ----
(***************************************************************************)
(* A model of gitchunk: the chunk store (FileChunker.split_file and        *)
(* FileChunker.join_files), the change classifier                          *)
(* (filter_files_from_status) and the batch planner (batch_files).         *)
(*                                                                         *)
(* File names are sequences of one-character strings, so that the name     *)
(* arithmetic of the code (str.split, Path.with_suffix, Path.suffix, the   *)
(* glob pattern, the :03d format, int(), the lexicographic sort) is        *)
(* computed as the code computes it.  File contents are sequences of       *)
(* bytes.  All paths live in one folder.                                   *)
(***************************************************************************)
EXTENDS Integers, Sequences, FiniteSets, TLC

(***************************************************************************)
(* Bounds of the model.                                                    *)
(***************************************************************************)
\* longest file content, in bytes
MaxLen == 3
\* largest part size handed to split_file
MaxChunkSize == 2
\* how many chunk files the user deletes from the folder
MaxEnv == 1
\* how many calls of split_file and join_files a behaviour makes
MaxCalls == 2

\* paths of a status snapshot, and of a list given to batch_files
MaxPaths == 3

\* the largest size of a file, in bytes
MaxSize == 4

\* the files of one run that are large enough to be chunked
MaxChunked == 1

\* the commits of the local and the remote history together
MaxCommits == 3

\* the commits one run makes
MaxMade == 2

\* how many times another machine pushes to the branch during a run
MaxMoves == 1
MaxTags == 2

Min(a, b) == IF a < b THEN a ELSE b

(***************************************************************************)
(* Strings.                                                                *)
(***************************************************************************)
\* the characters of the model's names, in code point order
Alphabet == <<".", "0", "1", "2", "3", "4", "5", "6", "7", "8", "9",
              "a", "b", "c", "g", "m", "p", "t", "x">>

Ord(c) == CHOOSE n \in 1..Len(Alphabet) : Alphabet[n] = c

DigitChars == <<"0", "1", "2", "3", "4", "5", "6", "7", "8", "9">>

IsDigit(c) == \E d \in 1..10 : DigitChars[d] = c

DigitVal(c) == (CHOOSE d \in 1..10 : DigitChars[d] = c) - 1

\* str(n) for n >= 0
RECURSIVE Decimal(_)
Decimal(n) ==
    IF n < 10 THEN <<DigitChars[n + 1]>>
    ELSE Decimal(n \div 10) \o <<DigitChars[(n % 10) + 1]>>

RECURSIVE ZeroPad(_, _)
ZeroPad(s, width) == IF Len(s) >= width THEN s ELSE ZeroPad(<<"0">> \o s, width)

\* f"{part_num:03d}"
Format03d(n) == ZeroPad(Decimal(n), 3)

\* int(s) for a string of decimal digits
RECURSIVE ParseInt(_)
ParseInt(s) ==
    IF s = <<>> THEN 0
    ELSE 10 * ParseInt(SubSeq(s, 1, Len(s) - 1)) + DigitVal(s[Len(s)])

\* s.find(sub) + 1: the first position at which sub occurs in s, 0 if none
Find(s, sub) ==
    LET hits == {p \in 1..(Len(s) - Len(sub) + 1) :
                    SubSeq(s, p, p + Len(sub) - 1) = sub}
    IN IF hits = {} THEN 0 ELSE CHOOSE p \in hits : \A q \in hits : p <= q

\* s.rfind(".") + 1
RFindDot(s) ==
    LET hits == {p \in 1..Len(s) : s[p] = "."}
    IN IF hits = {} THEN 0 ELSE CHOOSE p \in hits : \A q \in hits : q <= p

\* s.split(sep)[0]
SplitFirst(s, sep) ==
    LET p == Find(s, sep) IN IF p = 0 THEN s ELSE SubSeq(s, 1, p - 1)

\* s.split(".")[-1]
SplitLastDot(s) ==
    LET p == RFindDot(s) IN IF p = 0 THEN s ELSE SubSeq(s, p + 1, Len(s))

\* pathlib: PurePath.suffix of a file name
PathSuffix(name) ==
    LET p == RFindDot(name)
    IN IF 1 < p /\ p < Len(name) THEN SubSeq(name, p, Len(name)) ELSE <<>>

\* pathlib: PurePath.with_suffix(suffix)
WithSuffix(name, suffix) ==
    LET old == PathSuffix(name)
    IN IF old = <<>> THEN name \o suffix
       ELSE SubSeq(name, 1, Len(name) - Len(old)) \o suffix

\* a < b for str (comparison by code point, a proper prefix is smaller)
RECURSIVE StrLess(_, _)
StrLess(a, b) ==
    IF b = <<>> THEN FALSE
    ELSE IF a = <<>> THEN TRUE
    ELSE IF a[1] # b[1] THEN Ord(a[1]) < Ord(b[1])
    ELSE StrLess(Tail(a), Tail(b))

\* list.sort() of the paths of S
RECURSIVE SortPaths(_)
SortPaths(S) ==
    IF S = {} THEN <<>>
    ELSE LET least == CHOOSE a \in S : \A b \in S \ {a} : StrLess(a, b)
         IN <<least>> \o SortPaths(S \ {least})

(***************************************************************************)
(* FileChunker: names.                                                     *)
(***************************************************************************)
SUFFIX == <<".", "g", "c">>

TmpSuffix == <<".", "t", "m", "p">>

\* BLOCK_SIZE = 1024 * 1024 * 5, in units that keep a part larger than a block
BLOCK_SIZE == 1

\* chunk_name_final = f"{file_path.name}{cls.SUFFIX}.{part_num:03d}"
ChunkNameFinal(name, part_num) == name \o SUFFIX \o <<".">> \o Format03d(part_num)

\* chunk_path_tmp = chunk_path_final.with_suffix(".tmp")
ChunkPathTmp(name, part_num) == WithSuffix(ChunkNameFinal(name, part_num), TmpSuffix)

\* fnmatch of a name against f"*{cls.SUFFIX}.[0-9][0-9][0-9]"
GlobMatch(name) ==
    LET n == Len(name)
    IN /\ n >= Len(SUFFIX) + 4
       /\ SubSeq(name, n - 3 - Len(SUFFIX), n - 3) = SUFFIX \o <<".">>
       /\ \A p \in (n - 2)..n : IsDigit(name[p])

\* base_name = chunk_file.name.split(cls.SUFFIX)[0]; target_path = parent / base_name
TargetOf(chunk_file) == SplitFirst(chunk_file, SUFFIX)

\* target_path_tmp = target_path.with_suffix(".tmp")
TargetPathTmp(target) == WithSuffix(target, TmpSuffix)

\* int(chunks[-1].suffix.split(".")[-1])
LastChunkNum(chunks) == ParseInt(SplitLastDot(PathSuffix(chunks[Len(chunks)])))

(***************************************************************************)
(* The folder.                                                             *)
(***************************************************************************)
\* the file handed to split_file is "a.x" or "a.tmp"
MainNames == { <<"a", ".", "x">>, <<"a", ".", "t", "m", "p">> }

\* another file of the folder, archived earlier: "b.x"
OtherName == <<"b", ".", "x">>

\* The code never looks at the value of a byte, only at how many bytes a read
\* returns: a content is a sequence of pairwise different bytes of any length
\* up to MaxLen, the empty content included.
Contents == {[p \in 1..n |-> 10 + p] : n \in 0..MaxLen}

\* What an earlier archive may have left in the folder: the first part of the
\* file itself and parts of the other file, each with bytes of its own.
Leftovers(name) ==
    [n \in {ChunkNameFinal(name, 1),
            ChunkNameFinal(OtherName, 1), ChunkNameFinal(OtherName, 2)} |->
        IF n = ChunkNameFinal(name, 1) THEN <<21>>
        ELSE IF n = ChunkNameFinal(OtherName, 1) THEN <<31>>
        ELSE <<32>>]

VARIABLES
    fs,              \* the folder: file name -> content, for the files that exist
    trash,           \* what send2trash has moved aside: {<<name, content>>}
    pc,              \* where the running call stands; "idle" between calls
    op,              \* the call that runs or ran last: "none", "split", "join"
    result,          \* how the last call ended: "none", "returned", "raised"
    file_path,       \* split_file: its argument
    chunk_size,      \* split_file: its argument
    total_parts,     \* split_file
    part_num,        \* split_file: the part being produced (i + 1)
    fpos,            \* split_file: read position of the handle f
    chunks_creados,  \* split_file
    grupos,          \* join_files: target -> set of chunk files, as scanned
    pending,         \* join_files: the targets the loop over grupos has not reached
    target_path,     \* join_files: the group being joined
    chunks,          \* join_files: its sorted parts
    unlinked,        \* join_files: how many of them the final loop has removed
    fsAtCall,        \* history: fs when the call started
    trashAtCall,     \* history: trash when the call started
    written,         \* history: the names the running split has written
    joined,          \* history: the groups this join has joined
    skipped,         \* history: the groups this join has skipped as incomplete
    original,        \* history: the content of file_path when split_file was called
    produced,        \* history: the list the last split_file returned
    removed,         \* history: the chunk files the user has deleted
    calls,           \* history: how many calls have been made
    log,             \* history: the last two events (calls completed, deletions)
    git_status,      \* the status snapshot: [modified, untracked, deleted], lists of paths
    disk,            \* the working tree: path -> size, for the changed files that exist
    ppc,             \* where filter_files_from_status or batch_files stands
    idx,             \* position of the running for loop in its list
    pending_content, \* filter_files_from_status
    files_to_batch,  \* FilesFiltered: list of <<path, size>>
    files_to_chunk,  \* FilesFiltered: list of <<path, size>>
    invalid_files,   \* FilesFiltered: list of <<path, size, reason>>
    deleted_files,   \* FilesFiltered: list of paths
    batch_size_bytes, \* batch_files
    batch_current,   \* batch_files
    batchs,          \* batch_files
    to_add,          \* Batchs: list of lists of paths
    to_delete,       \* Batchs: list of paths
    missed,          \* history: the paths the filter found no file for
    has_chunks,      \* process_game: the attribute metadata.has_chunks, "unset" or "True"
    commits,         \* the commit objects: list of [parent, tree, msg], a commit is its position
    head,            \* the commit of the local branch, 0 when the repository has no commit
    index,           \* the index: path -> content
    worktree,        \* the working tree: path -> content
    shallow,         \* .git/shallow: the commits whose parents git does not follow
    headAtCall,      \* history: head when the call started
    indexAtCall,     \* history: index when the call started
    worktreeAtCall,  \* history: worktree when the call started
    shallowAtCall,   \* history: shallow when the call started
    cpc,             \* where create_commits stands
    total_steps,     \* create_commits
    current_step,    \* create_commits
    cidx,            \* create_commits: position of the loop over to_add
    ridx,            \* remove_files_from_index: position of the loop over the batch
    yielded,         \* history: the commits create_commits has yielded, in order
    remote_tip,      \* the commit of the branch on the remote, 0 when it has no such branch
    remote_ref,      \* temp_sync/<branch> after the fetch, 0 before it
    spc,             \* where sync_with_remote_shallow stands
    sync_status,     \* what get_sync_status returned, "none" before it
    sync_return,     \* what sync_with_remote_shallow returned, "none" before it
    gpc,             \* where process_game stands
    sync_runs,       \* history: how many times process_game has synchronized
    remotes,         \* the remotes of the repository configuration: {<<name, url>>}
    upc,             \* where push_commits_one_by_one stands
    rev_list,        \* push_commits_one_by_one: the commits to push, oldest first
    pidx,            \* push_commits_one_by_one: position of the loop over the commits
    plog,            \* history: the pushes and the sleeps of the call, in order
    moved,           \* history: how many times another machine has pushed to the branch
    local_tag,       \* the commit of the tag in the repository, 0 when it has no such tag
    remote_tag,      \* the commit of the tag on the remote, 0 when it has no such tag
    made,            \* process_game: what the loop over commit_changes still has to read
    should_force_tag, \* process_game
    run_log,         \* process_game: the pushes and the sleeps of the run, in order
    tag_created,     \* process_game: what _ensure_tag returned, "none" before it
    tpc,             \* where the tag phase of process_game stands
    tag_log,         \* history: what was done to the tag, in order
    tagAtCall,       \* history: local_tag when _ensure_tag was called
    version,         \* metadata.version
    platform,        \* metadata.platform
    remote_tags,     \* the tag names of the remote repository
    repo_exists,     \* whether the remote repository exists
    git_dir,         \* whether the game folder has a .git directory
    vpc,             \* where the start of process_game stands
    latest_remote,   \* process_game
    effects,         \* history: what the run has written so far
    branch_name      \* GitchunkRepo._branch_name

folder == <<fs, trash>>
splitLocals == <<file_path, chunk_size, total_parts, part_num, fpos, chunks_creados>>
joinLocals == <<grupos, pending, target_path, chunks, unlinked>>
splitHistory == <<written, original, produced>>
joinHistory == <<joined, skipped>>
callHistory == <<fsAtCall, trashAtCall>>

filtered == <<files_to_batch, files_to_chunk, invalid_files, deleted_files>>
batchLocals == <<batch_size_bytes, batch_current, batchs>>
returned == <<to_add, to_delete>>

planVars == <<git_status, disk, ppc, idx, pending_content, files_to_batch,
              files_to_chunk, invalid_files, deleted_files, batch_size_bytes,
              batch_current, batchs, to_add, to_delete, missed, has_chunks>>

repoVars == <<commits, head, index, worktree, shallow>>
repoHistory == <<headAtCall, indexAtCall, worktreeAtCall, shallowAtCall>>
commitLocals == <<cpc, total_steps, current_step, cidx, ridx, yielded>>
syncLocals == <<remote_tip, remote_ref, spc, sync_status, sync_return, gpc, sync_runs>>

gitVars == <<repoVars, repoHistory, commitLocals, syncLocals>>

pushVars == <<remotes, upc, rev_list, pidx, plog, moved>>
tagVars == <<local_tag, remote_tag, made, should_force_tag, run_log, tag_created, tpc,
             tag_log, tagAtCall>>
guardVars == <<version, platform, remote_tags, repo_exists, git_dir, vpc, latest_remote,
               effects, branch_name>>
runVars == <<pushVars, tagVars, guardVars>>

chunkVars == <<fs, trash, pc, op, result, file_path, chunk_size, total_parts,
               part_num, fpos, chunks_creados, grupos, pending, target_path,
               chunks, unlinked, fsAtCall, trashAtCall, written, joined,
               skipped, original, produced, removed, calls, log>>

Exists(f, name) == name \in DOMAIN f

\* the folder after open(name, "wb"), write(data), close
WriteFile(f, name, data) ==
    [n \in DOMAIN f \cup {name} |-> IF n = name THEN data ELSE f[n]]

\* the folder after Path.unlink
Unlink(f, name) == [n \in DOMAIN f \ {name} |-> f[n]]

\* the folder after Path.rename(src -> dst), src existing
Rename(f, src, dst) ==
    [n \in (DOMAIN f \ {src}) \cup {dst} |-> IF n = dst THEN f[src] ELSE f[n]]

\* the trash after send2trash(name)
Send2Trash(t, f, name) == t \cup {<<name, f[name]>>}

Prefixes(data) == {SubSeq(data, 1, n) : n \in 0..Len(data)}

NoFile == <<>>

\* no call of FileChunker has been made
ChunkAtRest ==
    /\ trash = {}
    /\ pc = "idle"
    /\ op = "none"
    /\ result = "none"
    /\ file_path = NoFile
    /\ chunk_size = 0
    /\ total_parts = 0
    /\ part_num = 0
    /\ fpos = 0
    /\ chunks_creados = <<>>
    /\ grupos = <<>>
    /\ pending = {}
    /\ target_path = NoFile
    /\ chunks = <<>>
    /\ unlinked = 0
    /\ trashAtCall = {}
    /\ written = {}
    /\ joined = {}
    /\ skipped = {}
    /\ original = <<>>
    /\ produced = <<>>
    /\ removed = {}
    /\ calls = 0
    /\ log = <<>>

\* nothing of the planning functions has run
PlanAtRest ==
    /\ git_status = [modified |-> <<>>, untracked |-> <<>>, deleted |-> <<>>]
    /\ disk = <<>>
    /\ ppc = "none"
    /\ idx = 0
    /\ pending_content = <<>>
    /\ files_to_batch = <<>>
    /\ files_to_chunk = <<>>
    /\ invalid_files = <<>>
    /\ deleted_files = <<>>
    /\ batch_size_bytes = 0
    /\ batch_current = <<>>
    /\ batchs = <<>>
    /\ to_add = <<>>
    /\ to_delete = <<>>
    /\ missed = {}
    /\ has_chunks = "unset"

\* no repository is looked at
GitAtRest ==
    /\ commits = <<>>
    /\ head = 0
    /\ index = <<>>
    /\ worktree = <<>>
    /\ shallow = {}
    /\ headAtCall = 0
    /\ indexAtCall = <<>>
    /\ worktreeAtCall = <<>>
    /\ shallowAtCall = {}
    /\ cpc = "none"
    /\ total_steps = 0
    /\ current_step = 0
    /\ cidx = 0
    /\ ridx = 0
    /\ yielded = <<>>
    /\ remote_tip = 0
    /\ remote_ref = 0
    /\ spc = "none"
    /\ sync_status = "none"
    /\ sync_return = "none"
    /\ gpc = "none"
    /\ sync_runs = 0

\* nothing is pushed
PushAtRest ==
    /\ remotes = {}
    /\ upc = "none"
    /\ rev_list = <<>>
    /\ pidx = 0
    /\ plog = <<>>
    /\ moved = 0

\* no tag is looked at
TagAtRest ==
    /\ local_tag = 0
    /\ remote_tag = 0
    /\ made = 0
    /\ should_force_tag = FALSE
    /\ run_log = <<>>
    /\ tag_created = "none"
    /\ tpc = "none"
    /\ tag_log = <<>>
    /\ tagAtCall = 0

\* no version is compared
GuardAtRest ==
    /\ version = <<>>
    /\ platform = <<>>
    /\ remote_tags = {}
    /\ repo_exists = FALSE
    /\ git_dir = FALSE
    /\ vpc = "none"
    /\ latest_remote = <<>>
    /\ effects = {}
    /\ branch_name = <<>>

RunAtRest == PushAtRest /\ TagAtRest /\ GuardAtRest

InitChunk ==
    /\ \E name \in MainNames, data \in Contents :
          \E left \in SUBSET DOMAIN Leftovers(name) :
             fs = [n \in {name} \cup left |->
                      IF n = name THEN data ELSE Leftovers(name)[n]]
    /\ fsAtCall = fs
    /\ PlanAtRest
    /\ ChunkAtRest
    /\ RunAtRest
    /\ GitAtRest

\* the history keeps the last two events
Logged(l, entry) == IF Len(l) < 2 THEN Append(l, entry) ELSE <<l[2], entry>>

(***************************************************************************)
(* The environment: between two calls the user may delete a chunk file.    *)
(***************************************************************************)
EnvRemoveChunk(name) ==
    /\ pc = "idle"
    /\ Cardinality(removed) < MaxEnv
    /\ Exists(fs, name)
    /\ GlobMatch(name)
    /\ fs' = Unlink(fs, name)
    /\ removed' = removed \cup {name}
    /\ log' = Logged(log, "removed")
    /\ UNCHANGED <<trash, pc, op, result, calls>>
    /\ UNCHANGED <<splitLocals, joinLocals, splitHistory, joinHistory, callHistory>>
    /\ UNCHANGED <<planVars, gitVars, runVars>>

(***************************************************************************)
(* FileChunker.split_file                                                  *)
(***************************************************************************)
\* the inner read loop: up to `remaining` bytes from position pos, block by block
RECURSIVE ReadPart(_, _, _)
ReadPart(content, pos, remaining) ==
    IF remaining > 0
    THEN LET to_read == Min(BLOCK_SIZE, remaining)
             data == SubSeq(content, pos + 1, Min(pos + to_read, Len(content)))
         IN IF data = <<>> THEN <<>>
            ELSE data \o ReadPart(content, pos + Len(data), remaining - Len(data))
    ELSE <<>>

\* total_parts = (file_size + chunk_size - 1) // chunk_size
TotalParts(file_size, size) == (file_size + size - 1) \div size

\* a loop that goes on to remove the original after any part
AfterPartEarly(done, total) == "split_unlink"

\* for i in range(total_parts): after part `done`, the next part or the end of the loop
AfterPart(done, total) == IF done < total THEN "split_write" ELSE "split_unlink"

\* the exception leaves the function: split_file raises
SplitRaise ==
    /\ pc' = "idle"
    /\ result' = "raised"
    /\ log' = Logged(log, "split_raised")

\* lines 25-34
SplitCall(name, size) ==
    /\ pc = "idle"
    /\ calls < MaxCalls
    /\ calls' = calls + 1
    /\ op' = "split"
    /\ file_path' = name
    /\ chunk_size' = size
    /\ fsAtCall' = fs
    /\ trashAtCall' = trash
    /\ written' = {}
    /\ produced' = <<>>
    /\ chunks_creados' = <<>>
    /\ fpos' = 0
    /\ IF ~Exists(fs, name)
       THEN /\ SplitRaise
            /\ original' = <<>>
            /\ total_parts' = 0
            /\ part_num' = 0
       ELSE /\ original' = fs[name]
            /\ total_parts' = TotalParts(Len(fs[name]), size)
            /\ part_num' = 1
            /\ pc' = AfterPart(0, total_parts')
            /\ result' = "none"
            /\ UNCHANGED log
    /\ joined' = {}
    /\ skipped' = {}
    /\ UNCHANGED <<fs, trash, removed>>
    /\ UNCHANGED joinLocals
    /\ UNCHANGED <<planVars, gitVars, runVars>>

\* lines 44-52: the part is written to the temporary file
SplitWriteTmp ==
    /\ pc = "split_write"
    /\ LET tmp == ChunkPathTmp(file_path, part_num)
           data == ReadPart(fs[file_path], fpos, chunk_size)
       IN /\ fs' = WriteFile(fs, tmp, data)
          /\ written' = written \cup {tmp}
          /\ fpos' = fpos + Len(data)
    /\ pc' = "split_trash"
    /\ UNCHANGED <<trash, op, result, file_path, chunk_size, total_parts, part_num,
                   chunks_creados, original, produced, removed, calls, log>>
    /\ UNCHANGED <<joinLocals, joinHistory, callHistory>>
    /\ UNCHANGED <<planVars, gitVars, runVars>>

\* lines 45-52 raise: open fails, or a read or a write fails part way
SplitWriteTmpFails ==
    /\ pc = "split_write"
    /\ LET tmp == ChunkPathTmp(file_path, part_num)
           data == ReadPart(fs[file_path], fpos, chunk_size)
       IN \/ UNCHANGED <<fs, written>>
          \/ \E part \in Prefixes(data) :
                /\ fs' = WriteFile(fs, tmp, part)
                /\ written' = written \cup {tmp}
    /\ pc' = "split_except"
    /\ UNCHANGED <<trash, op, result, original, produced, removed, calls, log>>
    /\ UNCHANGED <<splitLocals, joinLocals, joinHistory, callHistory>>
    /\ UNCHANGED <<planVars, gitVars, runVars>>

\* lines 54-55
SplitTrashOld ==
    /\ pc = "split_trash"
    /\ LET final == ChunkNameFinal(file_path, part_num)
       IN IF Exists(fs, final)
          THEN /\ trash' = Send2Trash(trash, fs, final)
               /\ fs' = Unlink(fs, final)
          ELSE UNCHANGED <<fs, trash>>
    /\ pc' = "split_rename"
    /\ UNCHANGED <<op, result, removed, calls, log>>
    /\ UNCHANGED <<splitLocals, joinLocals, splitHistory, joinHistory, callHistory>>
    /\ UNCHANGED <<planVars, gitVars, runVars>>

\* line 55 raises
SplitTrashOldFails ==
    /\ pc = "split_trash"
    /\ Exists(fs, ChunkNameFinal(file_path, part_num))
    /\ pc' = "split_except"
    /\ UNCHANGED <<fs, trash, op, result, removed, calls, log>>
    /\ UNCHANGED <<splitLocals, joinLocals, splitHistory, joinHistory, callHistory>>
    /\ UNCHANGED <<planVars, gitVars, runVars>>

\* lines 57-59, and the loop test of line 38
SplitRename ==
    /\ pc = "split_rename"
    /\ LET final == ChunkNameFinal(file_path, part_num)
           tmp == ChunkPathTmp(file_path, part_num)
       IN /\ Exists(fs, tmp)
          /\ fs' = Rename(fs, tmp, final)
          /\ written' = written \cup {final}
          /\ chunks_creados' = Append(chunks_creados, final)
    /\ part_num' = part_num + 1
    /\ pc' = AfterPart(part_num, total_parts)
    /\ UNCHANGED <<trash, op, result, file_path, chunk_size, total_parts, fpos,
                   original, produced, removed, calls, log>>
    /\ UNCHANGED <<joinLocals, joinHistory, callHistory>>
    /\ UNCHANGED <<planVars, gitVars, runVars>>

\* line 57 raises
SplitRenameFails ==
    /\ pc = "split_rename"
    /\ pc' = "split_except"
    /\ UNCHANGED <<fs, trash, op, result, removed, calls, log>>
    /\ UNCHANGED <<splitLocals, joinLocals, splitHistory, joinHistory, callHistory>>
    /\ UNCHANGED <<planVars, gitVars, runVars>>

\* line 61: file_path.unlink()
RemoveOriginal(f, name) == Unlink(f, name)

\* lines 61-63
SplitUnlinkOriginal ==
    /\ pc = "split_unlink"
    /\ fs' = RemoveOriginal(fs, file_path)
    /\ pc' = "idle"
    /\ result' = "returned"
    /\ log' = Logged(log, "split_returned")
    /\ produced' = chunks_creados
    /\ UNCHANGED <<trash, op, removed, calls, written, original>>
    /\ UNCHANGED <<splitLocals, joinLocals, joinHistory, callHistory>>
    /\ UNCHANGED <<planVars, gitVars, runVars>>

\* line 61 raises
SplitUnlinkOriginalFails ==
    /\ pc = "split_unlink"
    /\ pc' = "split_except"
    /\ UNCHANGED <<fs, trash, op, result, removed, calls, log>>
    /\ UNCHANGED <<splitLocals, joinLocals, splitHistory, joinHistory, callHistory>>
    /\ UNCHANGED <<planVars, gitVars, runVars>>

\* lines 67-69: for c in chunks_creados: if c.exists(): c.unlink()
RECURSIVE Cleanup(_, _)
Cleanup(f, names) ==
    IF names = <<>> THEN f
    ELSE Cleanup(IF Exists(f, Head(names)) THEN Unlink(f, Head(names)) ELSE f,
                 Tail(names))

\* lines 65-70
SplitExcept ==
    /\ pc = "split_except"
    /\ fs' = Cleanup(fs, chunks_creados)
    /\ SplitRaise
    /\ UNCHANGED <<trash, op, removed, calls>>
    /\ UNCHANGED <<splitLocals, joinLocals, splitHistory, joinHistory, callHistory>>
    /\ UNCHANGED <<planVars, gitVars, runVars>>

(***************************************************************************)
(* FileChunker.join_files                                                  *)
(***************************************************************************)
\* lines 78-86: the scan, grouped by target path
Scan(f) ==
    LET found == {n \in DOMAIN f : GlobMatch(n)}
    IN [t \in {TargetOf(c) : c \in found} |-> {c \in found : TargetOf(c) = t}]

\* a check that lets every group through
IsCompleteAlways(group) == TRUE

\* lines 93-97: the group is complete
IsComplete(group) ==
    LET sorted == SortPaths(group) IN Len(sorted) = LastChunkNum(sorted)

\* lines 114-118: the whole of a part, block by block
RECURSIVE ReadAll(_, _)
ReadAll(content, pos) ==
    LET data == SubSeq(content, pos + 1, Min(pos + BLOCK_SIZE, Len(content)))
    IN IF data = <<>> THEN <<>> ELSE data \o ReadAll(content, pos + Len(data))

\* lines 111-118: what the loop over the parts writes to the temporary file
RECURSIVE Concatenate(_, _)
Concatenate(f, parts) ==
    IF parts = <<>> THEN <<>>
    ELSE ReadAll(f[Head(parts)], 0) \o Concatenate(f, Tail(parts))

\* join_files returns, or raises
JoinEnd(how) ==
    /\ pc' = "idle"
    /\ result' = how
    /\ log' = Logged(log, IF how = "returned" THEN "join_returned" ELSE "join_raised")
    /\ grupos' = <<>>
    /\ pending' = {}
    /\ target_path' = NoFile
    /\ chunks' = <<>>
    /\ unlinked' = 0

\* lines 78-90
JoinCall ==
    /\ pc = "idle"
    /\ calls < MaxCalls
    /\ calls' = calls + 1
    /\ op' = "join"
    /\ fsAtCall' = fs
    /\ trashAtCall' = trash
    /\ joined' = {}
    /\ skipped' = {}
    /\ LET g == Scan(fs)
       IN IF DOMAIN g = {}
          THEN JoinEnd("returned")
          ELSE /\ grupos' = g
               /\ pending' = DOMAIN g
               /\ pc' = "join_loop"
               /\ result' = "none"
               /\ UNCHANGED <<target_path, chunks, unlinked, log>>
    /\ chunk_size' = 0
    /\ total_parts' = 0
    /\ part_num' = 0
    /\ fpos' = 0
    /\ chunks_creados' = <<>>
    /\ written' = {}
    /\ UNCHANGED <<fs, trash, removed, file_path, original, produced>>
    /\ UNCHANGED <<planVars, gitVars, runVars>>

\* lines 92-108: the next group of the dictionary, in the order of the scan
JoinNextGroup(t) ==
    /\ pc = "join_loop"
    /\ t \in pending
    /\ pending' = pending \ {t}
    /\ IF IsComplete(grupos[t])
       THEN /\ target_path' = t
            /\ chunks' = SortPaths(grupos[t])
            /\ pc' = "join_concat"
            /\ UNCHANGED skipped
       ELSE /\ skipped' = skipped \cup {t}
            /\ UNCHANGED <<target_path, chunks, pc>>
    /\ UNCHANGED <<fs, trash, op, result, grupos, unlinked, joined, removed, calls, log>>
    /\ UNCHANGED <<splitLocals, splitHistory, callHistory>>
    /\ UNCHANGED <<planVars, gitVars, runVars>>

\* the loop of line 92 is exhausted: join_files returns
JoinReturn ==
    /\ pc = "join_loop"
    /\ pending = {}
    /\ JoinEnd("returned")
    /\ UNCHANGED <<fs, trash, op, removed, calls>>
    /\ UNCHANGED <<splitLocals, splitHistory, joinHistory, callHistory>>
    /\ UNCHANGED <<planVars, gitVars, runVars>>

\* lines 121-122: if target_path_tmp.stat().st_size == 0: raise
Verified(f, tmp) == IF Len(f[tmp]) = 0 THEN "join_except" ELSE "join_trash"

\* lines 111-122: the parts are concatenated and the result is checked
JoinConcat ==
    /\ pc = "join_concat"
    /\ \A c \in grupos[target_path] : Exists(fs, c)
    /\ fs' = WriteFile(fs, TargetPathTmp(target_path), Concatenate(fs, chunks))
    /\ pc' = Verified(fs', TargetPathTmp(target_path))
    /\ UNCHANGED <<trash, op, result, removed, calls, log>>
    /\ UNCHANGED <<splitLocals, joinLocals, splitHistory, joinHistory, callHistory>>
    /\ UNCHANGED <<planVars, gitVars, runVars>>

\* lines 111-118 raise: open fails, or a read or a write fails part way
JoinConcatFails ==
    /\ pc = "join_concat"
    /\ \/ UNCHANGED fs
       \/ \E part \in Prefixes(Concatenate(fs, SelectSeq(chunks, LAMBDA c : Exists(fs, c)))) :
             fs' = WriteFile(fs, TargetPathTmp(target_path), part)
    /\ pc' = "join_except"
    /\ UNCHANGED <<trash, op, result, removed, calls, log>>
    /\ UNCHANGED <<splitLocals, joinLocals, splitHistory, joinHistory, callHistory>>
    /\ UNCHANGED <<planVars, gitVars, runVars>>

\* lines 125-126
JoinTrashOld ==
    /\ pc = "join_trash"
    /\ IF Exists(fs, target_path)
       THEN /\ trash' = Send2Trash(trash, fs, target_path)
            /\ fs' = Unlink(fs, target_path)
       ELSE UNCHANGED <<fs, trash>>
    /\ pc' = "join_rename"
    /\ UNCHANGED <<op, result, removed, calls, log>>
    /\ UNCHANGED <<splitLocals, joinLocals, splitHistory, joinHistory, callHistory>>
    /\ UNCHANGED <<planVars, gitVars, runVars>>

\* line 126 raises
JoinTrashOldFails ==
    /\ pc = "join_trash"
    /\ Exists(fs, target_path)
    /\ pc' = "join_except"
    /\ UNCHANGED <<fs, trash, op, result, removed, calls, log>>
    /\ UNCHANGED <<splitLocals, joinLocals, splitHistory, joinHistory, callHistory>>
    /\ UNCHANGED <<planVars, gitVars, runVars>>

\* line 128
JoinRename ==
    /\ pc = "join_rename"
    /\ Exists(fs, TargetPathTmp(target_path))
    /\ fs' = Rename(fs, TargetPathTmp(target_path), target_path)
    /\ pc' = "join_unlink"
    /\ UNCHANGED <<trash, op, result, removed, calls, log>>
    /\ UNCHANGED <<splitLocals, joinLocals, splitHistory, joinHistory, callHistory>>
    /\ UNCHANGED <<planVars, gitVars, runVars>>

\* line 128 raises (always, when the temporary file is no longer there)
JoinRenameFails ==
    /\ pc = "join_rename"
    /\ pc' = "join_except"
    /\ UNCHANGED <<fs, trash, op, result, removed, calls, log>>
    /\ UNCHANGED <<splitLocals, joinLocals, splitHistory, joinHistory, callHistory>>
    /\ UNCHANGED <<planVars, gitVars, runVars>>

\* a removal that leaves the part in the folder
RemoveChunkKept(f, chunk_p) == f

\* line 131: chunk_p.unlink()
RemoveChunk(f, chunk_p) == Unlink(f, chunk_p)

\* lines 130-133: one turn of the loop that removes the parts
JoinUnlinkChunk ==
    /\ pc = "join_unlink"
    /\ Exists(fs, chunks[unlinked + 1])
    /\ fs' = RemoveChunk(fs, chunks[unlinked + 1])
    /\ IF unlinked + 1 = Len(chunks)
       THEN /\ joined' = joined \cup {target_path}
            /\ pc' = "join_loop"
            /\ unlinked' = 0
       ELSE /\ unlinked' = unlinked + 1
            /\ UNCHANGED <<joined, pc>>
    /\ UNCHANGED <<trash, op, result, grupos, pending, target_path, chunks, skipped,
                   removed, calls, log>>
    /\ UNCHANGED <<splitLocals, splitHistory, callHistory>>
    /\ UNCHANGED <<planVars, gitVars, runVars>>

\* line 131 raises
JoinUnlinkChunkFails ==
    /\ pc = "join_unlink"
    /\ pc' = "join_except"
    /\ UNCHANGED <<fs, trash, op, result, removed, calls, log>>
    /\ UNCHANGED <<splitLocals, joinLocals, splitHistory, joinHistory, callHistory>>
    /\ UNCHANGED <<planVars, gitVars, runVars>>

\* lines 135-139
JoinExcept ==
    /\ pc = "join_except"
    /\ fs' = IF Exists(fs, TargetPathTmp(target_path))
             THEN Unlink(fs, TargetPathTmp(target_path))
             ELSE fs
    /\ JoinEnd("raised")
    /\ UNCHANGED <<trash, op, removed, calls>>
    /\ UNCHANGED <<splitLocals, splitHistory, joinHistory, callHistory>>
    /\ UNCHANGED <<planVars, gitVars, runVars>>

NextChunk ==
    \/ \E name \in DOMAIN fs : EnvRemoveChunk(name)
    \/ \E name \in MainNames, size \in 1..MaxChunkSize : SplitCall(name, size)
    \/ SplitWriteTmp
    \/ SplitWriteTmpFails
    \/ SplitTrashOld
    \/ SplitTrashOldFails
    \/ SplitRename
    \/ SplitRenameFails
    \/ SplitUnlinkOriginal
    \/ SplitUnlinkOriginalFails
    \/ SplitExcept
    \/ JoinCall
    \/ \E t \in pending : JoinNextGroup(t)
    \/ JoinReturn
    \/ JoinConcat
    \/ JoinConcatFails
    \/ JoinTrashOld
    \/ JoinTrashOldFails
    \/ JoinRename
    \/ JoinRenameFails
    \/ JoinUnlinkChunk
    \/ JoinUnlinkChunkFails
    \/ JoinExcept

vars == <<chunkVars, planVars, gitVars, runVars>>

SpecChunk == InitChunk /\ [][NextChunk]_vars

(***************************************************************************)
(* processing.py: filter_files_from_status and batch_files.                *)
(* Paths are numbered; a size is a number of bytes, scaled down with the   *)
(* three limits of constants.py.                                           *)
(***************************************************************************)
MAX_FILE_SIZE_BYTES == 1

MAX_BATCH_SIZE_BYTES == 2

MAX_TOTAL_SIZE_ALLOWED == 3

Paths == 1..MaxPaths

Sizes == 0..MaxSize

\* the paths of a set as git lists them, in ascending order
RECURSIVE Listed(_)
Listed(S) ==
    IF S = {} THEN <<>>
    ELSE LET first == CHOOSE p \in S : \A q \in S : p <= q
         IN <<first>> \o Listed(S \ {first})

\* lines 13-15
PendingContent(status) == status.modified \o status.untracked

\* a classification that has no list for a file over the absolute cap
ClassifyDropping(size) ==
    IF size <= MAX_FILE_SIZE_BYTES THEN "batch"
    ELSE IF size <= MAX_TOTAL_SIZE_ALLOWED THEN "chunk"
    ELSE "none"

\* a classification with exclusive upper bounds
ClassifyExclusive(size) ==
    IF size < MAX_FILE_SIZE_BYTES THEN "batch"
    ELSE IF size < MAX_TOTAL_SIZE_ALLOWED THEN "chunk"
    ELSE "invalid"

\* lines 33-38: the list a file of that size goes to
Classify(size) ==
    IF size <= MAX_FILE_SIZE_BYTES THEN "batch"
    ELSE IF size <= MAX_TOTAL_SIZE_ALLOWED THEN "chunk"
    ELSE "invalid"

\* line 38
Reason == "Excede el limite (360MB)"

\* line 41: list.sort(key=size) is stable
RECURSIVE InsertBySize(_, _)
InsertBySize(sorted, entry) ==
    IF sorted = <<>> THEN <<entry>>
    ELSE IF entry[2] < Head(sorted)[2] THEN <<entry>> \o sorted
    ELSE <<Head(sorted)>> \o InsertBySize(Tail(sorted), entry)

RECURSIVE SortBySize(_)
SortBySize(list) ==
    IF list = <<>> THEN <<>>
    ELSE InsertBySize(SortBySize(SubSeq(list, 1, Len(list) - 1)), list[Len(list)])

\* a test that closes the batch already when the file fills it to the budget
ExceedsAtBudget(total, size) == total + size >= MAX_BATCH_SIZE_BYTES

\* a test that looks at the batch alone, not at the file that comes in
ExceedsWithout(total, size) == total > MAX_BATCH_SIZE_BYTES

\* line 58
Exceeds(total, size) == total + size > MAX_BATCH_SIZE_BYTES

\* the status is taken: the modified and untracked files exist, the deleted do not
InitFilter ==
    /\ \E state \in [Paths -> {"clean", "modified", "untracked", "deleted"}] :
          /\ git_status = [modified |-> Listed({p \in Paths : state[p] = "modified"}),
                           untracked |-> Listed({p \in Paths : state[p] = "untracked"}),
                           deleted |-> Listed({p \in Paths : state[p] = "deleted"})]
          /\ disk \in [{p \in Paths : state[p] \in {"modified", "untracked"}} -> Sizes]
    /\ ppc = "filter_call"
    /\ idx = 0
    /\ pending_content = <<>>
    /\ files_to_batch = <<>>
    /\ files_to_chunk = <<>>
    /\ invalid_files = <<>>
    /\ deleted_files = <<>>
    /\ batch_size_bytes = 0
    /\ batch_current = <<>>
    /\ batchs = <<>>
    /\ to_add = <<>>
    /\ to_delete = <<>>
    /\ missed = {}
    /\ has_chunks = "unset"
    /\ fs = <<>>
    /\ fsAtCall = <<>>
    /\ ChunkAtRest
    /\ RunAtRest
    /\ GitAtRest

\* a changed file disappears after the status was taken
EnvVanish(p) ==
    /\ ppc \in {"filter_call", "filter_loop"}
    /\ p \in DOMAIN disk
    /\ disk' = [q \in DOMAIN disk \ {p} |-> disk[q]]
    /\ UNCHANGED <<git_status, ppc, idx, pending_content, filtered, batchLocals,
                   returned, missed>>
    /\ UNCHANGED has_chunks
    /\ UNCHANGED <<chunkVars, gitVars, runVars>>

\* lines 13-22
FilterCall ==
    /\ ppc = "filter_call"
    /\ pending_content' = PendingContent(git_status)
    /\ deleted_files' = git_status.deleted
    /\ files_to_batch' = <<>>
    /\ files_to_chunk' = <<>>
    /\ invalid_files' = <<>>
    /\ idx' = 1
    /\ ppc' = "filter_loop"
    /\ UNCHANGED <<git_status, disk, batchLocals, returned, missed>>
    /\ UNCHANGED has_chunks
    /\ UNCHANGED <<chunkVars, gitVars, runVars>>

\* lines 24-29: the file is not there, the path is skipped
FilterSkip ==
    /\ ppc = "filter_loop"
    /\ idx <= Len(pending_content)
    /\ pending_content[idx] \notin DOMAIN disk
    /\ idx' = idx + 1
    /\ missed' = missed \cup {pending_content[idx]}
    /\ UNCHANGED <<git_status, disk, ppc, pending_content, filtered, batchLocals, returned>>
    /\ UNCHANGED has_chunks
    /\ UNCHANGED <<chunkVars, gitVars, runVars>>

\* lines 24-38: the file is there and goes to one list by its size
FilterClassify ==
    /\ ppc = "filter_loop"
    /\ idx <= Len(pending_content)
    /\ pending_content[idx] \in DOMAIN disk
    /\ LET file_rel == pending_content[idx]
           size == disk[file_rel]
           list == Classify(size)
       IN /\ files_to_batch' = IF list = "batch"
                               THEN Append(files_to_batch, <<file_rel, size>>)
                               ELSE files_to_batch
          /\ files_to_chunk' = IF list = "chunk"
                               THEN Append(files_to_chunk, <<file_rel, size>>)
                               ELSE files_to_chunk
          /\ invalid_files' = IF list = "invalid"
                              THEN Append(invalid_files, <<file_rel, size, Reason>>)
                              ELSE invalid_files
    /\ idx' = idx + 1
    /\ UNCHANGED <<git_status, disk, ppc, pending_content, deleted_files, batchLocals,
                   returned, missed>>
    /\ UNCHANGED has_chunks
    /\ UNCHANGED <<chunkVars, gitVars, runVars>>

\* lines 41-48
FilterReturn ==
    /\ ppc = "filter_loop"
    /\ idx > Len(pending_content)
    /\ files_to_batch' = SortBySize(files_to_batch)
    /\ ppc' = "filter_done"
    /\ UNCHANGED <<git_status, disk, idx, pending_content, files_to_chunk, invalid_files,
                   deleted_files, batchLocals, returned, missed>>
    /\ UNCHANGED has_chunks
    /\ UNCHANGED <<chunkVars, gitVars, runVars>>

NextFilter ==
    \/ \E p \in Paths : EnvVanish(p)
    \/ FilterCall
    \/ FilterSkip
    \/ FilterClassify
    \/ FilterReturn

SpecFilter == InitFilter /\ [][NextFilter]_vars

\* the lists of <<path, size>> over a set of paths, each path once, in any order
RECURSIVE FileLists(_)
FileLists(S) ==
    {<<>>} \cup UNION {{<<<<p, size>>>> \o rest : size \in Sizes, rest \in FileLists(S \ {p})}
                       : p \in S}

\* batch_files is given a FilesFiltered
InitBatch ==
    /\ files_to_batch \in FileLists(Paths)
    /\ \E gone \in SUBSET (Paths \ {files_to_batch[n][1] : n \in 1..Len(files_to_batch)}) :
          deleted_files = Listed(gone)
    /\ files_to_chunk = <<>>
    /\ invalid_files = <<>>
    /\ git_status = [modified |-> <<>>, untracked |-> <<>>, deleted |-> <<>>]
    /\ disk = <<>>
    /\ ppc = "batch_call"
    /\ idx = 0
    /\ pending_content = <<>>
    /\ batch_size_bytes = 0
    /\ batch_current = <<>>
    /\ batchs = <<>>
    /\ to_add = <<>>
    /\ to_delete = <<>>
    /\ missed = {}
    /\ has_chunks = "unset"
    /\ fs = <<>>
    /\ fsAtCall = <<>>
    /\ ChunkAtRest
    /\ RunAtRest
    /\ GitAtRest

\* a closing that appends the current batch even when it is empty
ClosedAlways(list, batch) == Append(list, batch)

\* lines 59-60 and 68-69: the current batch is appended when it is not empty
Closed(list, batch) == IF batch # <<>> THEN Append(list, batch) ELSE list

\* lines 52-55
BatchCall ==
    /\ ppc = "batch_call"
    /\ batchs' = <<>>
    /\ batch_size_bytes' = 0
    /\ batch_current' = <<>>
    /\ idx' = 1
    /\ ppc' = "batch_loop"
    /\ UNCHANGED <<git_status, disk, pending_content, filtered, returned, missed>>
    /\ UNCHANGED has_chunks
    /\ UNCHANGED <<chunkVars, gitVars, runVars>>

\* lines 57-63: the file does not fit, it opens a new batch
BatchOpen ==
    /\ ppc = "batch_loop"
    /\ idx <= Len(files_to_batch)
    /\ LET file == files_to_batch[idx][1]
           size == files_to_batch[idx][2]
       IN /\ Exceeds(batch_size_bytes, size)
          /\ batchs' = Closed(batchs, batch_current)
          /\ batch_current' = <<file>>
          /\ batch_size_bytes' = size
    /\ idx' = idx + 1
    /\ UNCHANGED <<git_status, disk, ppc, pending_content, filtered, returned, missed>>
    /\ UNCHANGED has_chunks
    /\ UNCHANGED <<chunkVars, gitVars, runVars>>

\* lines 57-58, 64-66: the file joins the current batch
BatchAppend ==
    /\ ppc = "batch_loop"
    /\ idx <= Len(files_to_batch)
    /\ LET file == files_to_batch[idx][1]
           size == files_to_batch[idx][2]
       IN /\ ~Exceeds(batch_size_bytes, size)
          /\ batch_current' = Append(batch_current, file)
          /\ batch_size_bytes' = batch_size_bytes + size
    /\ idx' = idx + 1
    /\ UNCHANGED <<git_status, disk, ppc, pending_content, filtered, batchs, returned, missed>>
    /\ UNCHANGED has_chunks
    /\ UNCHANGED <<chunkVars, gitVars, runVars>>

\* lines 68-71
BatchReturn ==
    /\ ppc = "batch_loop"
    /\ idx > Len(files_to_batch)
    /\ batchs' = Closed(batchs, batch_current)
    /\ to_add' = batchs'
    /\ to_delete' = deleted_files
    /\ ppc' = "batch_done"
    /\ UNCHANGED <<git_status, disk, idx, pending_content, filtered, batch_size_bytes,
                   batch_current, missed>>
    /\ UNCHANGED has_chunks
    /\ UNCHANGED <<chunkVars, gitVars, runVars>>

NextBatch ==
    \/ BatchCall
    \/ BatchOpen
    \/ BatchAppend
    \/ BatchReturn

SpecBatch == InitBatch /\ [][NextBatch]_vars

\* batch_files is a loop over a list: once called it keeps running
SpecBatchFair == SpecBatch /\ WF_vars(NextBatch)

(***************************************************************************)
(* game/manager.py: process_game from the report of analyze_changes to the *)
(* batches it hands to commit_changes (lines 87-117).                      *)
(***************************************************************************)
\* chunk_limit = 90 * 1024 * 1024, the file cap, in the same scale
chunk_limit == 1

\* the size of GITCHUNK_RESTORE.txt: its two lines of text are less than one
\* unit of size
RestoreSize == 0

\* the path of GITCHUNK_RESTORE.txt, none of the numbered paths
RestorePath == 0

\* the path of the part k of the file p: "<p>.gc.00k"
PartPath(p, k) == 10 * p + k

\* lines 96-102: the <<rel_name, chunk_size>> of the parts split_file returns
CreatedChunks(p, size) ==
    [k \in 1..TotalParts(size, chunk_limit) |->
        <<PartPath(p, k), Min(chunk_limit, size - (k - 1) * chunk_limit)>>]

\* a list of <<path, size>> for the paths of S in ascending order
RECURSIVE Entries(_, _)
Entries(S, size) ==
    IF S = {} THEN <<>>
    ELSE LET first == CHOOSE p \in S : \A q \in S : p <= q
         IN <<<<first, size[first]>>>> \o Entries(S \ {first}, size)

\* the triples of invalid_files for the paths of S, in ascending order
RECURSIVE Invalids(_, _)
Invalids(S, size) ==
    IF S = {} THEN <<>>
    ELSE LET first == CHOOSE p \in S : \A q \in S : p <= q
         IN <<<<first, size[first], Reason>>>> \o Invalids(S \ {first}, size)

\* a report in which no file is ever invalid
HasInvalidNever(report) == FALSE

\* manager.py line 73: if files_report.invalid_files
HasInvalid(report) == report # <<>>

\* the report analyze_changes returns
InitArchive ==
    /\ \E state \in [Paths -> {"clean", "small", "large", "deleted", "invalid"}] :
          \E size \in [Paths -> Sizes] :
             /\ \A p \in Paths :
                   /\ state[p] = "small" => Classify(size[p]) = "batch"
                   /\ state[p] = "large" => Classify(size[p]) = "chunk"
                   /\ state[p] = "invalid" => Classify(size[p]) = "invalid"
                   /\ state[p] \in {"clean", "deleted"} => size[p] = 0
             /\ invalid_files = Invalids({p \in Paths : state[p] = "invalid"}, size)
             /\ files_to_batch = SortBySize(Entries({p \in Paths : state[p] = "small"}, size))
             /\ files_to_chunk = Entries({p \in Paths : state[p] = "large"}, size)
             /\ deleted_files = Listed({p \in Paths : state[p] = "deleted"})
    /\ git_status = [modified |-> <<>>, untracked |-> <<>>, deleted |-> <<>>]
    /\ disk = <<>>
    /\ ppc = "archive_check"
    /\ idx = 0
    /\ pending_content = <<>>
    /\ batch_size_bytes = 0
    /\ batch_current = <<>>
    /\ batchs = <<>>
    /\ to_add = <<>>
    /\ to_delete = <<>>
    /\ missed = {}
    /\ has_chunks = "unset"
    /\ fs = <<>>
    /\ fsAtCall = <<>>
    /\ ChunkAtRest
    /\ RunAtRest
    /\ GitAtRest

\* manager.py lines 72-79: a report with invalid files ends the run
ArchiveInvalid ==
    /\ ppc = "archive_check"
    /\ HasInvalid(invalid_files)
    /\ ppc' = "archive_returned"
    /\ UNCHANGED <<git_status, disk, idx, pending_content, filtered, batchLocals, returned,
                   missed, has_chunks>>
    /\ UNCHANGED <<chunkVars, gitVars, runVars>>

\* manager.py lines 73 and 80-86: no file is invalid, the run goes on
ArchiveValid ==
    /\ ppc = "archive_check"
    /\ ~HasInvalid(invalid_files)
    /\ ppc' = "archive_start"
    /\ UNCHANGED <<git_status, disk, idx, pending_content, filtered, batchLocals, returned,
                   missed, has_chunks>>
    /\ UNCHANGED <<chunkVars, gitVars, runVars>>

\* line 87
ArchiveStart ==
    /\ ppc = "archive_start"
    /\ ppc' = IF files_to_chunk # <<>> THEN "archive_chunk" ELSE "archive_marker"
    /\ idx' = 1
    /\ UNCHANGED <<git_status, disk, pending_content, filtered, batchLocals, returned,
                   missed, has_chunks>>
    /\ UNCHANGED <<chunkVars, gitVars, runVars>>

\* lines 92-102: one file is split, its parts join files_to_batch
ArchiveChunkFile ==
    /\ ppc = "archive_chunk"
    /\ idx <= Len(files_to_chunk)
    /\ LET file_relative_path == files_to_chunk[idx][1]
           size == files_to_chunk[idx][2]
       IN /\ deleted_files' = Append(deleted_files, file_relative_path)
          /\ files_to_batch' = files_to_batch \o CreatedChunks(file_relative_path, size)
    /\ idx' = idx + 1
    /\ UNCHANGED <<git_status, disk, ppc, pending_content, files_to_chunk, invalid_files,
                   batchLocals, returned, missed, has_chunks>>
    /\ UNCHANGED <<chunkVars, gitVars, runVars>>

\* line 96: split_file raises, and so does process_game
ArchiveSplitFails ==
    /\ ppc = "archive_chunk"
    /\ idx <= Len(files_to_chunk)
    /\ ppc' = "archive_raised"
    /\ UNCHANGED <<git_status, disk, idx, pending_content, filtered, batchLocals, returned,
                   missed, has_chunks>>
    /\ UNCHANGED <<chunkVars, gitVars, runVars>>

\* line 104
ArchiveChunked ==
    /\ ppc = "archive_chunk"
    /\ idx > Len(files_to_chunk)
    /\ has_chunks' = "True"
    /\ ppc' = "archive_marker"
    /\ UNCHANGED <<git_status, disk, idx, pending_content, filtered, batchLocals, returned,
                   missed>>
    /\ UNCHANGED <<chunkVars, gitVars, runVars>>

\* line 105: GameMetadata has no field has_chunks, reading it raises AttributeError
ArchiveNoAttribute ==
    /\ ppc = "archive_marker"
    /\ has_chunks = "unset"
    /\ ppc' = "archive_raised"
    /\ UNCHANGED <<git_status, disk, idx, pending_content, filtered, batchLocals, returned,
                   missed, has_chunks>>
    /\ UNCHANGED <<chunkVars, gitVars, runVars>>

\* lines 105-114: the restore marker is written and joins files_to_batch
ArchiveMarker ==
    /\ ppc = "archive_marker"
    /\ has_chunks = "True"
    /\ files_to_batch' = Append(files_to_batch, <<RestorePath, RestoreSize>>)
    /\ ppc' = "archive_batch"
    /\ UNCHANGED <<git_status, disk, idx, pending_content, files_to_chunk, invalid_files,
                   deleted_files, batchLocals, returned, missed, has_chunks>>
    /\ UNCHANGED <<chunkVars, gitVars, runVars>>

\* lines 116-117: batch_files is called on the report
ArchiveBatch ==
    /\ ppc = "archive_batch"
    /\ files_to_chunk' = <<>>
    /\ ppc' = "batch_call"
    /\ UNCHANGED <<git_status, disk, idx, pending_content, files_to_batch, invalid_files,
                   deleted_files, batchLocals, returned, missed, has_chunks>>
    /\ UNCHANGED <<chunkVars, gitVars, runVars>>

NextArchive ==
    \/ ArchiveInvalid
    \/ ArchiveValid
    \/ ArchiveStart
    \/ ArchiveChunkFile
    \/ ArchiveSplitFails
    \/ ArchiveChunked
    \/ ArchiveNoAttribute
    \/ ArchiveMarker
    \/ ArchiveBatch
    \/ BatchCall
    \/ BatchOpen
    \/ BatchAppend
    \/ BatchReturn

SpecArchive == InitArchive /\ [][NextArchive]_vars

(***************************************************************************)
(* git_manager.py: get_git_status, remove_files_from_index and             *)
(* create_commits on a repository.  A tree, the index and the working tree *)
(* are functions path -> content; a commit is its position in commits.     *)
(***************************************************************************)
\* a path in the head tree, the index and the working tree: <<h, i, w>>, each
\* a content or 0 for no file.  With a head commit: clean, modified, deleted,
\* untracked, absent, and a new file, a change or a removal staged earlier.
WithHead == {<<1, 1, 1>>, <<1, 1, 2>>, <<1, 1, 0>>, <<0, 0, 2>>, <<0, 0, 0>>,
             <<0, 2, 2>>, <<1, 2, 2>>, <<1, 0, 0>>}

\* without any commit: untracked, absent, and a file staged earlier that is
\* as staged, changed since, or deleted since
WithoutHead == {<<0, 0, 2>>, <<0, 0, 0>>, <<0, 2, 2>>, <<0, 1, 2>>, <<0, 1, 0>>}

\* the files of a tree: the paths that have a content
Files(kind, part) == [p \in {q \in Paths : kind[q][part] # 0} |-> kind[p][part]]

\* the tree of a commit, the empty tree when there is none
TreeOf(c) == IF c = 0 THEN <<>> ELSE commits[c].tree

\* a tree, index or working tree without the paths of S
Without(f, S) == [p \in DOMAIN f \ S |-> f[p]]

\* the index after the files of S are added from the working tree w
Staged(f, w, S) == [p \in DOMAIN f \cup S |-> IF p \in S THEN w[p] ELSE f[p]]

\* the elements of a list
Elements(list) == {list[n] : n \in 1..Len(list)}

\* the ways to cut a list into consecutive batches, none empty
RECURSIVE Splits(_)
Splits(list) ==
    IF list = <<>> THEN {<<>>}
    ELSE UNION {{<<SubSeq(list, 1, k)>> \o rest :
                    rest \in Splits(SubSeq(list, k + 1, Len(list)))} : k \in 1..Len(list)}

\* a test that takes every list of deletions for a batch
HasDeletionsAlways(list) == TRUE

\* lines 296 and 302: if batchs["to_delete"]
HasDeletions(list) == list # <<>>

\* a status that does not list the files git does not track
GitStatusOfTracked(i, w) ==
    [modified |-> Listed({p \in DOMAIN i \cap DOMAIN w : i[p] # w[p]}),
     deleted |-> Listed(DOMAIN i \ DOMAIN w),
     untracked |-> <<>>]

\* lines 213-241: the paths of the staged lists, index against head; every
\* entry of the index when the repository has no commit
StagedPaths(h, i) ==
    IF h = 0 THEN DOMAIN i
    ELSE {p \in DOMAIN i \cup DOMAIN commits[h].tree :
             \/ p \notin DOMAIN i
             \/ p \notin DOMAIN commits[h].tree
             \/ i[p] # commits[h].tree[p]}

\* lines 193-194: repo.index.reset() when the head is valid
IndexAtStatus(h, i) == IF h # 0 THEN TreeOf(h) ELSE i

\* line 300: datetime.now().strftime("%Y-%m-%d %H:%M:%S")
GetTimestamp ==
    <<"2", "0", "2", "6", "-", "0", "1", "-", "0", "1", " ",
      "0", "0", ":", "0", "0", ":", "0", "0">>

Add == <<"A", "d", "d">>
Delete == <<"D", "e", "l", "e", "t", "e">>

\* a message that states the step and the total the other way round
MessageSwapped(kind, step, total, count) ==
    <<"B", "a", "t", "c", "h", " ">> \o Decimal(total) \o <<"/">> \o Decimal(step)
        \o <<" ", "|", " ">> \o kind \o <<" ">> \o Decimal(count)
        \o <<" ", "f", "i", "l", "e", "s", " ", "|", " ">> \o GetTimestamp

\* lines 310 and 327:
\* f"Batch {current_step}/{total_steps} | {kind} {count} files | {get_timestamp()}"
Message(kind, step, total, count) ==
    <<"B", "a", "t", "c", "h", " ">> \o Decimal(step) \o <<"/">> \o Decimal(total)
        \o <<" ", "|", " ">> \o kind \o <<" ">> \o Decimal(count)
        \o <<" ", "f", "i", "l", "e", "s", " ", "|", " ">> \o GetTimestamp

\* repo.index.commit(msg): the commit objects with one more, on top of head
Committed(list, parent, tree, msg) ==
    Append(list, [parent |-> parent, tree |-> tree, msg |-> msg])

\* lines 196-211: the unstaged changes, index against working tree
GitStatusOf(i, w) ==
    [modified |-> Listed({p \in DOMAIN i \cap DOMAIN w : i[p] # w[p]}),
     deleted |-> Listed(DOMAIN i \ DOMAIN w),
     untracked |-> Listed(DOMAIN w \ DOMAIN i)]

InitCommit ==
    /\ \/ \E kind \in [Paths -> WithHead] :
             /\ commits = <<[parent |-> 0, tree |-> Files(kind, 1), msg |-> <<"base">>]>>
             /\ head = 1
             /\ index = Files(kind, 2)
             /\ worktree = Files(kind, 3)
       \/ \E kind \in [Paths -> WithoutHead] :
             /\ commits = <<>>
             /\ head = 0
             /\ index = Files(kind, 2)
             /\ worktree = Files(kind, 3)
    /\ shallow = {}
    /\ headAtCall = head
    /\ indexAtCall = index
    /\ worktreeAtCall = worktree
    /\ shallowAtCall = {}
    /\ cpc = "status"
    /\ total_steps = 0
    /\ current_step = 0
    /\ cidx = 0
    /\ ridx = 0
    /\ yielded = <<>>
    /\ remote_tip = 0
    /\ remote_ref = 0
    /\ spc = "none"
    /\ sync_status = "none"
    /\ sync_return = "none"
    /\ gpc = "none"
    /\ sync_runs = 0
    /\ fs = <<>>
    /\ fsAtCall = <<>>
    /\ ChunkAtRest
    /\ RunAtRest
    /\ PlanAtRest

\* get_git_status, lines 193-211
GetGitStatus ==
    /\ cpc = "status"
    /\ index' = IndexAtStatus(head, index)
    /\ git_status' = GitStatusOf(index', worktree)
    /\ cpc' = "plan"
    /\ UNCHANGED <<commits, head, worktree, shallow, repoHistory, total_steps,
                   current_step, cidx, ridx, yielded, syncLocals>>
    /\ UNCHANGED <<disk, ppc, idx, pending_content, filtered, batchLocals, returned,
                   missed, has_chunks>>
    /\ UNCHANGED <<chunkVars, runVars>>

\* the entries of a list that are not in S, in order
RECURSIVE Except(_, _)
Except(list, S) ==
    IF list = <<>> THEN <<>>
    ELSE IF Head(list) \in S THEN Except(Tail(list), S)
    ELSE <<Head(list)>> \o Except(Tail(list), S)

\* the first part of each file of a list
RECURSIVE FirstParts(_)
FirstParts(list) ==
    IF list = <<>> THEN <<>>
    ELSE <<PartPath(Head(list), 1)>> \o FirstParts(Tail(list))

\* the working tree after split_file: each file of S is replaced by its part
Chunked(w, S) ==
    [p \in (DOMAIN w \ S) \cup {PartPath(q, 1) : q \in S} |->
        IF p \in DOMAIN w \ S THEN w[p]
        ELSE w[CHOOSE q \in S : PartPath(q, 1) = p]]

\* process_game, lines 72-117: the changed paths are cut into batches; a file
\* sent to the chunker is unlinked, listed as deleted, and its part is added
PlanBatches ==
    /\ cpc = "plan"
    /\ \E S \in SUBSET Elements(PendingContent(git_status)) :
          /\ Cardinality(S) <= MaxChunked
          /\ to_delete' = git_status.deleted
                             \o Except(PendingContent(git_status),
                                       Elements(PendingContent(git_status)) \ S)
          /\ to_add' \in Splits(Except(PendingContent(git_status), S)
                                   \o FirstParts(Except(PendingContent(git_status),
                                          Elements(PendingContent(git_status)) \ S)))
          /\ worktree' = Chunked(worktree, S)
    /\ cpc' = "commit_call"
    /\ UNCHANGED <<commits, head, index, shallow, repoHistory, total_steps, current_step,
                   cidx, ridx, yielded, syncLocals>>
    /\ UNCHANGED <<git_status, disk, ppc, idx, pending_content, filtered, batchLocals,
                   missed, has_chunks>>
    /\ UNCHANGED <<chunkVars, runVars>>

\* what create_commits and remove_files_from_index never touch
CommitFrame ==
    /\ UNCHANGED <<shallow, indexAtCall, worktreeAtCall, shallowAtCall, syncLocals>>
    /\ UNCHANGED <<chunkVars, planVars, runVars>>

\* lines 296-302
CommitCall ==
    /\ cpc = "commit_call"
    /\ total_steps' = Len(to_add) + (IF HasDeletions(to_delete) THEN 1 ELSE 0)
    /\ current_step' = 1
    /\ cidx' = 1
    /\ ridx' = 0
    /\ yielded' = <<>>
    /\ headAtCall' = head
    /\ cpc' = IF HasDeletions(to_delete) THEN "remove" ELSE "add_loop"
    /\ UNCHANGED <<commits, head, index, worktree>>
    /\ CommitFrame

\* line 284: git rm of the whole batch
RemoveBatch ==
    /\ cpc = "remove"
    /\ Elements(to_delete) \subseteq DOMAIN index
    /\ index' = Without(index, Elements(to_delete))
    /\ worktree' = Without(worktree, Elements(to_delete))
    /\ cpc' = "commit_delete"
    /\ UNCHANGED <<commits, head, headAtCall, total_steps, current_step, cidx, ridx, yielded>>
    /\ CommitFrame

\* lines 284-287: git rm of the batch fails and removes nothing
RemoveBatchFails ==
    /\ cpc = "remove"
    /\ ridx' = 1
    /\ cpc' = "remove_each"
    /\ UNCHANGED <<commits, head, index, worktree, headAtCall, total_steps, current_step,
                   cidx, yielded>>
    /\ CommitFrame

\* lines 287-288: git rm of one path
RemoveEach ==
    /\ cpc = "remove_each"
    /\ ridx <= Len(to_delete)
    /\ to_delete[ridx] \in DOMAIN index
    /\ index' = Without(index, {to_delete[ridx]})
    /\ worktree' = Without(worktree, {to_delete[ridx]})
    /\ ridx' = ridx + 1
    /\ UNCHANGED <<commits, head, headAtCall, cpc, total_steps, current_step, cidx, yielded>>
    /\ CommitFrame

\* lines 288-290: git rm of one path fails, the error is logged and the loop ends
RemoveEachFails ==
    /\ cpc = "remove_each"
    /\ ridx <= Len(to_delete)
    /\ cpc' = "commit_delete"
    /\ UNCHANGED <<commits, head, index, worktree, headAtCall, total_steps, current_step,
                   cidx, ridx, yielded>>
    /\ CommitFrame

\* line 287: the loop over the batch is over
RemoveEachDone ==
    /\ cpc = "remove_each"
    /\ ridx > Len(to_delete)
    /\ cpc' = "commit_delete"
    /\ UNCHANGED <<commits, head, index, worktree, headAtCall, total_steps, current_step,
                   cidx, ridx, yielded>>
    /\ CommitFrame

\* lines 310-313
CommitDelete ==
    /\ cpc = "commit_delete"
    /\ commits' = Committed(commits, head, index,
                            Message(Delete, current_step, total_steps, Len(to_delete)))
    /\ head' = Len(commits')
    /\ yielded' = Append(yielded, head')
    /\ current_step' = current_step + 1
    /\ cpc' = "add_loop"
    /\ UNCHANGED <<index, worktree, headAtCall, total_steps, cidx, ridx>>
    /\ CommitFrame

\* lines 315-325: repo.index.add(files)
AddBatch ==
    /\ cpc = "add_loop"
    /\ cidx <= Len(to_add)
    /\ Elements(to_add[cidx]) \subseteq DOMAIN worktree
    /\ index' = Staged(index, worktree, Elements(to_add[cidx]))
    /\ cpc' = "commit_add"
    /\ UNCHANGED <<commits, head, worktree, headAtCall, total_steps, current_step, cidx,
                   ridx, yielded>>
    /\ CommitFrame

\* line 325: repo.index.add(files) raises, and so does create_commits
AddBatchFails ==
    /\ cpc = "add_loop"
    /\ cidx <= Len(to_add)
    /\ cpc' = "commit_raised"
    /\ UNCHANGED <<commits, head, index, worktree, headAtCall, total_steps, current_step,
                   cidx, ridx, yielded>>
    /\ CommitFrame

\* lines 327-333
CommitAdd ==
    /\ cpc = "commit_add"
    /\ commits' = Committed(commits, head, index,
                            Message(Add, current_step, total_steps, Len(to_add[cidx])))
    /\ head' = Len(commits')
    /\ yielded' = Append(yielded, head')
    /\ current_step' = current_step + 1
    /\ cidx' = cidx + 1
    /\ cpc' = "add_loop"
    /\ UNCHANGED <<index, worktree, headAtCall, total_steps, ridx>>
    /\ CommitFrame

\* line 335
CommitReturn ==
    /\ cpc = "add_loop"
    /\ cidx > Len(to_add)
    /\ cpc' = "commit_done"
    /\ UNCHANGED <<commits, head, index, worktree, headAtCall, total_steps, current_step,
                   cidx, ridx, yielded>>
    /\ CommitFrame

\* core.py line 82: if not batches["to_add"] and not batches["to_delete"]
NothingToCommit(add, del) == add = <<>> /\ del = <<>>

\* core.py lines 82-84: commit_changes has nothing to commit and returns 0
CommitChangesZero ==
    /\ cpc = "commit_call"
    /\ NothingToCommit(to_add, to_delete)
    /\ cpc' = "changes_returned"
    /\ UNCHANGED <<commits, head, index, worktree, headAtCall, total_steps, current_step,
                   cidx, ridx, yielded>>
    /\ CommitFrame

\* core.py lines 87-90: create_commits(...) makes a generator, of which no
\* line has run when len(commits) is evaluated; a generator has no len(),
\* TypeError is raised and the generator is dropped unstarted
CommitChangesLen ==
    /\ cpc = "commit_call"
    /\ ~NothingToCommit(to_add, to_delete)
    /\ cpc' = "changes_raised"
    /\ UNCHANGED <<commits, head, index, worktree, headAtCall, total_steps, current_step,
                   cidx, ridx, yielded>>
    /\ CommitFrame

NextCommit ==
    \/ GetGitStatus
    \/ PlanBatches
    \/ CommitCall
    \/ RemoveBatch
    \/ RemoveBatchFails
    \/ RemoveEach
    \/ RemoveEachFails
    \/ RemoveEachDone
    \/ CommitDelete
    \/ AddBatch
    \/ AddBatchFails
    \/ CommitAdd
    \/ CommitReturn
    \/ CommitChangesZero
    \/ CommitChangesLen

SpecCommit == InitCommit /\ [][NextCommit]_vars

(***************************************************************************)
(* git_manager.py: get_sync_status and sync_with_remote_shallow, called    *)
(* once by process_game.  commits holds the commits of both histories; the *)
(* local repository follows parents up to the commits of its shallow file. *)
(***************************************************************************)
\* the content of a file edited since the last commit
Edited == MaxCommits + 1

\* the commits git reaches from c when the commits of cut have no parents
RECURSIVE History(_, _)
History(c, cut) ==
    IF c = 0 THEN {}
    ELSE IF c \in cut THEN {c}
    ELSE {c} \cup History(commits[c].parent, cut)

\* repo.is_ancestor(a, b): git merge-base --is-ancestor a b
IsAncestor(a, b, cut) == a \in History(b, cut)

\* line 64, remote.fetch(branch_name, depth=1): the fetched tip is recorded in
\* the shallow file, which cuts it from its parent
Shallowed(cut, tip) == IF commits[tip].parent = 0 THEN cut ELSE cut \cup {tip}

\* lines 67-92
SyncStatusOf(h, r, cut) ==
    IF h = 0 THEN "BEHIND"
    ELSE IF h = r THEN "EQUAL"
    ELSE IF IsAncestor(r, h, cut) THEN "AHEAD"
    ELSE IF IsAncestor(h, r, cut) THEN "BEHIND"
    ELSE "DIVERGED"

\* a reset that leaves the branch where it was
ResetHeadKept(h, r) == h

\* lines 128 and 136, git reset [--soft] <remote_ref>: the branch moves to r
ResetHead(h, r) == r

\* a reset that leaves the index as it was
MixedIndexKept(i, r) == i

\* line 128, git reset <remote_ref>: the index becomes the tree of r
MixedIndex(i, r) == TreeOf(r)

\* a soft reset that resets the index as well
SoftIndexReset(i, r) == TreeOf(r)

\* line 136, git reset --soft <remote_ref>: the index is kept
SoftIndex(i, r) == i

\* the index and the working tree a repository at commit h can be in: clean
\* or with an edit staged; as staged, edited, or with one more file
Indexes(h) == {TreeOf(h), [p \in {1} |-> Edited]}
Worktrees(i) == {i, [p \in {1} |-> Edited],
                 [p \in DOMAIN i \cup {2} |-> IF p \in DOMAIN i THEN i[p] ELSE Edited]}

\* the url of the remote repository, and the same url with the token in it
CleanUrl == "https://github.com/"
AuthUrl == "https://token@github.com/"

\* the names of the remotes
Origin == "origin"
TempSync == "temp_sync"
TempTagPush == "temp_tag_push"

\* a context manager that leaves the remote in the configuration
RemovedNever(rs, name) == rs

\* ephemeral_remote, lines 46-48: finally, repo.delete_remote(remote)
Removed(rs, name) == {r \in rs : r[1] # name}

\* ephemeral_remote, lines 36-43: a remote found under the name is deleted,
\* then repo.create_remote(remote_name, auth_url)
Created(rs, name) == Removed(rs, name) \cup {<<name, AuthUrl>>}

\* core.py, _set_remote: create the remote or set its url
SetUrl(rs, name, url) == {r \in rs : r[1] # name} \cup {<<name, url>>}

InitSync ==
    /\ \E n \in 0..MaxCommits :
          \E par \in [1..n -> 0..MaxCommits] :
             /\ \A c \in 1..n : par[c] < c
             /\ commits = [c \in 1..n |->
                              [parent |-> par[c], tree |-> [p \in {1} |-> c],
                               msg |-> <<"base">>]]
    /\ head \in 0..Len(commits)
    /\ remote_tip \in 0..Len(commits)
    /\ shallow \in SUBSET History(head, {})
    /\ index \in Indexes(head)
    /\ worktree \in Worktrees(index) \cup {TreeOf(remote_tip)}
    /\ headAtCall = head
    /\ indexAtCall = index
    /\ worktreeAtCall = worktree
    /\ shallowAtCall = shallow
    /\ cpc = "none"
    /\ total_steps = 0
    /\ current_step = 0
    /\ cidx = 0
    /\ ridx = 0
    /\ yielded = <<>>
    /\ remote_ref = 0
    /\ spc = "none"
    /\ sync_status = "none"
    /\ sync_return = "none"
    /\ gpc = "synchronize"
    /\ sync_runs = 0
    /\ fs = <<>>
    /\ fsAtCall = <<>>
    /\ ChunkAtRest
    /\ remotes \in {{<<Origin, CleanUrl>>}, {<<Origin, CleanUrl>>, <<TempSync, AuthUrl>>}}
    /\ upc = "none"
    /\ rev_list = <<>>
    /\ pidx = 0
    /\ plog = <<>>
    /\ moved = 0
    /\ TagAtRest
    /\ GuardAtRest
    /\ PlanAtRest

\* what get_sync_status and sync_with_remote_shallow never touch
SyncFrame ==
    /\ UNCHANGED <<commits, remote_tip, repoHistory, commitLocals>>
    /\ UNCHANGED <<upc, rev_list, pidx, plog, moved, tagVars, guardVars>>
    /\ UNCHANGED <<chunkVars, planVars>>

\* manager.py line 69, core.py lines 48-50, git_manager.py lines 95-102
GameSynchronize ==
    /\ gpc = "synchronize"
    /\ gpc' = "in_sync"
    /\ spc' = "ls_remote"
    /\ sync_runs' = sync_runs + 1
    /\ UNCHANGED <<head, index, worktree, shallow, remote_ref, sync_status, sync_return>>
    /\ remotes' = Created(remotes, TempSync)
    /\ SyncFrame

\* lines 55-61: the remote has no such branch, or has one
LsRemote ==
    /\ spc = "ls_remote"
    /\ IF remote_tip = 0
       THEN sync_status' = "NO_REMOTE" /\ spc' = "match"
       ELSE sync_status' = sync_status /\ spc' = "fetch"
    /\ UNCHANGED <<head, index, worktree, shallow, remote_ref, sync_return, gpc, sync_runs>>
    /\ UNCHANGED remotes
    /\ SyncFrame

\* lines 57-58: git ls-remote fails
LsRemoteFails ==
    /\ spc = "ls_remote"
    /\ sync_status' = "NO_REMOTE"
    /\ spc' = "match"
    /\ UNCHANGED <<head, index, worktree, shallow, remote_ref, sync_return, gpc, sync_runs>>
    /\ UNCHANGED remotes
    /\ SyncFrame

\* lines 63-64
Fetch ==
    /\ spc = "fetch"
    /\ remote_ref' = remote_tip
    /\ shallow' = Shallowed(shallow, remote_tip)
    /\ spc' = "classify"
    /\ UNCHANGED <<head, index, worktree, sync_status, sync_return, gpc, sync_runs>>
    /\ UNCHANGED remotes
    /\ SyncFrame

\* line 63: the fetch raises, and so do sync_with_remote_shallow and process_game
FetchFails ==
    /\ spc = "fetch"
    /\ spc' = "sync_raised"
    /\ gpc' = "raised"
    /\ UNCHANGED <<head, index, worktree, shallow, remote_ref, sync_status, sync_return,
                   sync_runs>>
    /\ remotes' = Removed(remotes, TempSync)
    /\ SyncFrame

\* lines 66-92
GetSyncStatus ==
    /\ spc = "classify"
    /\ sync_status' = SyncStatusOf(head, remote_ref, shallow)
    /\ spc' = "match"
    /\ UNCHANGED <<head, index, worktree, shallow, remote_ref, sync_return, gpc, sync_runs>>
    /\ UNCHANGED remotes
    /\ SyncFrame

\* lines 104-109
SyncNoRemote ==
    /\ spc = "match"
    /\ sync_status = "NO_REMOTE"
    /\ sync_return' = "False"
    /\ spc' = "returned"
    /\ UNCHANGED <<head, index, worktree, shallow, remote_ref, sync_status, gpc, sync_runs>>
    /\ remotes' = Removed(remotes, TempSync)
    /\ SyncFrame

\* lines 111-113
SyncEqual ==
    /\ spc = "match"
    /\ sync_status = "EQUAL"
    /\ sync_return' = "True"
    /\ spc' = "returned"
    /\ UNCHANGED <<head, index, worktree, shallow, remote_ref, sync_status, gpc, sync_runs>>
    /\ remotes' = Removed(remotes, TempSync)
    /\ SyncFrame

\* lines 115-121
SyncAhead ==
    /\ spc = "match"
    /\ sync_status = "AHEAD"
    /\ sync_return' = "True"
    /\ spc' = "returned"
    /\ UNCHANGED <<head, index, worktree, shallow, remote_ref, sync_status, gpc, sync_runs>>
    /\ remotes' = Removed(remotes, TempSync)
    /\ SyncFrame

\* lines 123-129: repo.git.reset(remote_ref)
SyncBehind ==
    /\ spc = "match"
    /\ sync_status = "BEHIND"
    /\ head' = ResetHead(head, remote_ref)
    /\ index' = MixedIndex(index, remote_ref)
    /\ sync_return' = "True"
    /\ spc' = "returned"
    /\ UNCHANGED <<worktree, shallow, remote_ref, sync_status, gpc, sync_runs>>
    /\ remotes' = Removed(remotes, TempSync)
    /\ SyncFrame

\* lines 131-137: repo.git.reset("--soft", remote_ref)
SyncDiverged ==
    /\ spc = "match"
    /\ sync_status = "DIVERGED"
    /\ head' = ResetHead(head, remote_ref)
    /\ index' = SoftIndex(index, remote_ref)
    /\ sync_return' = "True"
    /\ spc' = "returned"
    /\ UNCHANGED <<worktree, shallow, remote_ref, sync_status, gpc, sync_runs>>
    /\ remotes' = Removed(remotes, TempSync)
    /\ SyncFrame

\* manager.py line 72, core.py lines 60-73: analyze_changes reads the status
GameAnalyze ==
    /\ gpc = "in_sync"
    /\ spc = "returned"
    /\ index' = IndexAtStatus(head, index)
    /\ git_status' = GitStatusOf(index', worktree)
    /\ gpc' = "analyzed"
    /\ UNCHANGED <<commits, head, worktree, shallow, repoHistory, commitLocals, remote_tip,
                   remote_ref, spc, sync_status, sync_return, sync_runs>>
    /\ UNCHANGED <<disk, ppc, idx, pending_content, filtered, batchLocals, returned,
                   missed, has_chunks>>
    /\ UNCHANGED <<chunkVars, runVars>>

\* manager.py lines 119-120: the call of commit_changes is reached
GameCommitChanges ==
    /\ gpc = "analyzed"
    /\ gpc' = "commit_changes"
    /\ UNCHANGED <<head, index, worktree, shallow, remote_ref, spc, sync_status,
                   sync_return, sync_runs>>
    /\ UNCHANGED remotes
    /\ SyncFrame

NextSync ==
    \/ GameSynchronize
    \/ LsRemote
    \/ LsRemoteFails
    \/ Fetch
    \/ FetchFails
    \/ GetSyncStatus
    \/ SyncNoRemote
    \/ SyncEqual
    \/ SyncAhead
    \/ SyncBehind
    \/ SyncDiverged
    \/ GameAnalyze
    \/ GameCommitChanges

SpecSync == InitSync /\ [][NextSync]_vars

(***************************************************************************)
(* One run of process_game from configure_endpoint on: the reconciliation, *)
(* the loop over the commits that create_commits yields with a call of     *)
(* push_commits_one_by_one after each, and the tag.                        *)
(***************************************************************************)
\* the commits in the order repo.iter_commits lists them, newest first
RECURSIVE IterCommits(_)
IterCommits(S) ==
    IF S = {} THEN <<>>
    ELSE LET newest == CHOOSE c \in S : \A d \in S : d <= c
         IN <<newest>> \o IterCommits(S \ {newest})

\* a list that is read in the order it has
ReversedNot(list) == list

\* reversed(commits)
Reversed(list) == [n \in 1..Len(list) |-> list[Len(list) + 1 - n]]

\* lines 252-263: rev_range, and the commits git lists for it
RevRange(h, r, cut) ==
    IF r # 0 THEN History(h, cut) \ History(r, cut) ELSE History(h, cut)

\* a loop that sleeps after every push
AfterPushAlways(i, n) == "sleep"

\* lines 270-273: if index < len(commits): sleep
AfterPush(i, n) == IF i < n THEN "sleep" ELSE "exit"

\* an entry of the history of a call of push_commits_one_by_one
Event(ev, commit, res, old) == [ev |-> ev, commit |-> commit, res |-> res, old |-> old]

\* the commits there are before the run, which adds its own
RunCommits == MaxCommits + 1 - MaxMade

InitRun ==
    /\ \E n \in 0..RunCommits :
          \E par \in [1..n -> 0..RunCommits] :
             /\ \A c \in 1..n : par[c] < c
             /\ commits = [c \in 1..n |->
                              [parent |-> par[c], tree |-> [p \in {1} |-> c],
                               msg |-> <<"base">>]]
    /\ head \in 0..Len(commits)
    /\ remote_tip \in 0..Len(commits)
    /\ shallow \in {{}} \cup {{c} : c \in History(head, {})}
    /\ index = TreeOf(head)
    /\ worktree = [p \in {1} |-> Edited]
    /\ headAtCall = head
    /\ indexAtCall = index
    /\ worktreeAtCall = worktree
    /\ shallowAtCall = shallow
    /\ cpc = "none"
    /\ total_steps = 0
    /\ current_step = 0
    /\ cidx = 0
    /\ ridx = 0
    /\ yielded = <<>>
    /\ remote_ref = 0
    /\ spc = "none"
    /\ sync_status = "none"
    /\ sync_return = "none"
    /\ gpc = "configure"
    /\ sync_runs = 0
    /\ remotes \in {{}, {<<Origin, AuthUrl>>}, {<<Origin, CleanUrl>>, <<TempSync, AuthUrl>>}}
    /\ upc = "none"
    /\ rev_list = <<>>
    /\ pidx = 0
    /\ plog = <<>>
    /\ moved = 0
    /\ local_tag \in {c \in 0..Len(commits) : c = 0 \/ c \in History(head, {})}
    /\ remote_tag \in {0, local_tag}
    /\ made \in 0..MaxMade
    /\ should_force_tag = FALSE
    /\ run_log = <<>>
    /\ tag_created = "none"
    /\ tpc = "none"
    /\ tag_log = <<>>
    /\ tagAtCall = local_tag
    /\ GuardAtRest
    /\ fs = <<>>
    /\ fsAtCall = <<>>
    /\ ChunkAtRest
    /\ PlanAtRest

\* what the loop of process_game and push_commits_one_by_one never touch
RunFrame ==
    /\ UNCHANGED <<worktree, shallow, repoHistory, commitLocals, spc, sync_status,
                   sync_return, sync_runs>>
    /\ UNCHANGED <<local_tag, remote_tag, tag_created, tpc, tag_log, tagAtCall, guardVars>>
    /\ UNCHANGED <<chunkVars, planVars>>

\* manager.py line 67, core.py lines 42-46 and 130-138
ConfigureEndpoint ==
    /\ gpc = "configure"
    /\ remotes' = SetUrl(remotes, Origin, CleanUrl)
    /\ gpc' = "synchronize"
    /\ UNCHANGED <<commits, head, index, remote_tip, remote_ref, upc, rev_list, pidx, plog,
                   moved, made, should_force_tag, run_log>>
    /\ RunFrame

\* manager.py line 120 and core.py lines 87-90: len() of the generator that
\* create_commits returns raises TypeError, and so does the loop over the int
\* that commit_changes returns when there is nothing to commit
CommitChangesRaises ==
    /\ gpc = "commit_changes"
    /\ should_force_tag = FALSE
    /\ gpc' = "raised"
    /\ UNCHANGED <<commits, head, index, remote_tip, remote_ref, remotes, upc, rev_list,
                   pidx, plog, moved, made, should_force_tag, run_log>>
    /\ RunFrame

\* the commits this run has made
RunMade == {c \in 1..Len(commits) : commits[c].msg # <<"base">>}

\* manager.py lines 120-121, for the commits that create_commits yields:
\* the next commit is made (git_manager.py lines 327-330) and is true
LoopCommit ==
    /\ gpc = "commit_changes"
    /\ made > 0
    /\ made' = made - 1
    /\ commits' = Committed(commits, head, worktree,
                            Message(Add, Cardinality(RunMade) + 1,
                                    Cardinality(RunMade) + made, 1))
    /\ head' = Len(commits')
    /\ index' = worktree
    /\ gpc' = "push"
    /\ upc' = "none"
    /\ UNCHANGED <<remote_tip, remote_ref, remotes, rev_list, pidx, plog, moved,
                   should_force_tag, run_log>>
    /\ RunFrame

\* git_manager.py lines 246-247, ephemeral_remote lines 36-43
PushCall ==
    /\ gpc = "push"
    /\ upc = "none"
    /\ remotes' = Created(remotes, TempSync)
    /\ remote_ref' = 0
    /\ rev_list' = <<>>
    /\ pidx' = 0
    /\ plog' = <<>>
    /\ upc' = "fetch"
    /\ UNCHANGED <<commits, head, index, remote_tip, gpc, moved, made, should_force_tag,
                   run_log>>
    /\ RunFrame

\* line 248: sync_remote.fetch()
PushFetch ==
    /\ upc = "fetch"
    /\ remote_ref' = remote_tip
    /\ plog' = Append(plog, Event("fetch", remote_tip, "none", 0))
    /\ upc' = "range"
    /\ UNCHANGED <<commits, head, index, remote_tip, remotes, rev_list, pidx, gpc, moved,
                   made, should_force_tag, run_log>>
    /\ RunFrame

\* line 248: the fetch raises; the remote is removed on the way out
PushFetchFails ==
    /\ upc = "fetch"
    /\ remotes' = Removed(remotes, TempSync)
    /\ upc' = "raised"
    /\ gpc' = "raised"
    /\ UNCHANGED <<commits, head, index, remote_tip, remote_ref, rev_list, pidx, plog,
                   moved, made, should_force_tag, run_log>>
    /\ RunFrame

\* lines 250-263
PushRange ==
    /\ upc = "range"
    /\ rev_list' = Reversed(IterCommits(RevRange(head, remote_ref, shallow)))
    /\ pidx' = 1
    /\ upc' = IF rev_list' = <<>> THEN "exit" ELSE "push"
    /\ UNCHANGED <<commits, head, index, remote_tip, remote_ref, remotes, plog, gpc, moved,
                   made, should_force_tag, run_log>>
    /\ RunFrame

\* another machine pushes a commit of its own on top of the branch
OtherPush ==
    /\ upc \in {"range", "push", "sleep"}
    /\ moved < MaxMoves
    /\ \E c \in 1..Len(commits) :
          /\ c # remote_tip
          /\ c \notin History(head, {})
          /\ remote_tip = 0 \/ remote_tip \in History(c, {})
          /\ remote_tip' = c
    /\ moved' = moved + 1
    /\ UNCHANGED <<commits, head, index, remote_ref, remotes, upc, rev_list, pidx, plog,
                   gpc, made, should_force_tag, run_log>>
    /\ RunFrame

\* lines 265-269: the push with --force-with-lease is accepted, the branch on
\* the remote is what temp_sync/<branch> says
PushOk ==
    /\ upc = "push"
    /\ pidx <= Len(rev_list)
    /\ remote_tip = remote_ref
    /\ remote_tip' = rev_list[pidx]
    /\ remote_ref' = rev_list[pidx]
    /\ plog' = Append(plog, Event("push", rev_list[pidx], "ok", remote_tip))
    /\ upc' = AfterPush(pidx, Len(rev_list))
    /\ run_log' = Append(run_log, "push")
    /\ UNCHANGED <<commits, head, index, remotes, rev_list, pidx, gpc, moved, made,
                   should_force_tag>>
    /\ RunFrame

\* lines 265-269: the remote rejects the push (a stale lease, a hook);
\* sync_remote.push returns the flags, which nothing reads
PushRejected ==
    /\ upc = "push"
    /\ pidx <= Len(rev_list)
    /\ plog' = Append(plog, Event("push", rev_list[pidx], "rejected", remote_tip))
    /\ upc' = AfterPush(pidx, Len(rev_list))
    /\ run_log' = Append(run_log, "push")
    /\ UNCHANGED <<commits, head, index, remote_tip, remote_ref, remotes, rev_list, pidx,
                   gpc, moved, made, should_force_tag>>
    /\ RunFrame

\* line 266: git push gives no answer at all, sync_remote.push raises; the
\* remote is removed on the way out
PushRaises ==
    /\ upc = "push"
    /\ pidx <= Len(rev_list)
    /\ remotes' = Removed(remotes, TempSync)
    /\ upc' = "raised"
    /\ run_log' = Append(run_log, "push")
    /\ gpc' = "raised"
    /\ UNCHANGED <<commits, head, index, remote_tip, remote_ref, rev_list, pidx, plog,
                   moved, made, should_force_tag>>
    /\ RunFrame

\* lines 270-273
PushSleep ==
    /\ upc = "sleep"
    /\ plog' = Append(plog, Event("sleep", 0, "none", 0))
    /\ pidx' = pidx + 1
    /\ upc' = "push"
    /\ run_log' = Append(run_log, "sleep")
    /\ UNCHANGED <<commits, head, index, remote_tip, remote_ref, remotes, rev_list, gpc,
                   moved, made, should_force_tag>>
    /\ RunFrame

\* ephemeral_remote lines 46-48, the end of the with block
PushReturn ==
    /\ upc = "exit"
    /\ remotes' = Removed(remotes, TempSync)
    /\ upc' = "done"
    /\ gpc' = "pushed"
    /\ UNCHANGED <<commits, head, index, remote_tip, remote_ref, rev_list, pidx, plog,
                   moved, made, should_force_tag, run_log>>
    /\ RunFrame

\* manager.py line 123
LoopForce ==
    /\ gpc = "pushed"
    /\ should_force_tag' = TRUE
    /\ gpc' = "commit_changes"
    /\ UNCHANGED <<commits, head, index, remote_tip, remote_ref, remotes, upc, rev_list,
                   pidx, plog, moved, made, run_log>>
    /\ RunFrame

\* what _ensure_tag and push_tag_securely never touch
TagFrame ==
    /\ UNCHANGED <<repoVars, repoHistory, commitLocals>>
    /\ UNCHANGED <<remote_tip, remote_ref, spc, sync_status, sync_return, sync_runs>>
    /\ UNCHANGED <<upc, rev_list, pidx, plog, moved, made, should_force_tag, run_log,
                   guardVars>>
    /\ UNCHANGED <<chunkVars, planVars>>

\* one step of the tag phase: a deletion, a creation or a push of the tag
TagEvent(ev, forced, res) == [ev |-> ev, forced |-> forced, res |-> res]

\* _ensure_tag moves a tag whenever it is not at the head, forced or not
MovesTagUnforced(tag, hd, force) == tag # hd

\* manager.py lines 144-157: a tag that exists is deleted and recreated only
\* when force is set and it points to another commit than the head
MovesTag(tag, hd, force) == force /\ tag # hd

\* manager.py lines 120-127: the loop is over, _ensure_tag is called with
\* force = should_force_tag
LoopEnd ==
    /\ gpc = "commit_changes"
    /\ made = 0
    /\ gpc' = "ensure_tag"
    /\ tagAtCall' = local_tag
    /\ tag_log' = <<>>
    /\ tag_created' = "none"
    /\ UNCHANGED <<remotes, local_tag, remote_tag, tpc>>
    /\ TagFrame

\* manager.py lines 144-155: the tag exists and is left where it is
EnsureTagSkip ==
    /\ gpc = "ensure_tag"
    /\ local_tag # 0
    /\ ~MovesTag(local_tag, head, should_force_tag)
    /\ tag_created' = "False"
    /\ gpc' = "finished"
    /\ UNCHANGED <<remotes, local_tag, remote_tag, tpc, tag_log, tagAtCall>>
    /\ TagFrame

\* manager.py lines 157-160: the tag exists, is deleted and created again
EnsureTagMove ==
    /\ gpc = "ensure_tag"
    /\ local_tag # 0
    /\ head # 0
    /\ MovesTag(local_tag, head, should_force_tag)
    /\ local_tag' = head
    /\ tag_log' = tag_log \o <<TagEvent("delete", FALSE, "none"),
                               TagEvent("create", FALSE, "none")>>
    /\ tag_created' = "True"
    /\ gpc' = "push_tag"
    /\ UNCHANGED <<remotes, remote_tag, tpc, tagAtCall>>
    /\ TagFrame

\* manager.py lines 144 and 159-160: there is no such tag, it is created
EnsureTagCreate ==
    /\ gpc = "ensure_tag"
    /\ local_tag = 0
    /\ head # 0
    /\ local_tag' = head
    /\ tag_log' = tag_log \o <<TagEvent("create", FALSE, "none")>>
    /\ tag_created' = "True"
    /\ gpc' = "push_tag"
    /\ UNCHANGED <<remotes, remote_tag, tpc, tagAtCall>>
    /\ TagFrame

\* manager.py line 159: create_tag in a repository without a commit raises
EnsureTagRaises ==
    /\ gpc = "ensure_tag"
    /\ local_tag = 0
    /\ head = 0
    /\ tag_created' = "raised"
    /\ gpc' = "raised"
    /\ UNCHANGED <<remotes, local_tag, remote_tag, tpc, tag_log, tagAtCall>>
    /\ TagFrame

\* manager.py lines 128-134 and 165-166, ephemeral_remote lines 36-43
TagPushCall ==
    /\ gpc = "push_tag"
    /\ tpc \in {"none", "done", "raised"}
    /\ remotes' = Created(remotes, TempTagPush)
    /\ tpc' = "push"
    /\ gpc' = "in_push_tag"
    /\ UNCHANGED <<local_tag, remote_tag, tag_created, tag_log, tagAtCall>>
    /\ TagFrame

\* manager.py lines 169-178: the remote takes the tag; without the "+" it
\* does so only when it has no such tag or has it on the same commit
TagPushOk ==
    /\ tpc = "push"
    /\ should_force_tag \/ remote_tag \in {0, local_tag}
    /\ remote_tag' = local_tag
    /\ tag_log' = tag_log \o <<TagEvent("push", should_force_tag, "ok")>>
    /\ remotes' = Removed(remotes, TempTagPush)
    /\ tpc' = "done"
    /\ gpc' = "finished"
    /\ UNCHANGED <<local_tag, tag_created, tagAtCall>>
    /\ TagFrame

\* manager.py lines 173-177: the push is rejected, an Exception is raised
TagPushRejected ==
    /\ tpc = "push"
    /\ tag_log' = tag_log \o <<TagEvent("push", should_force_tag, "rejected")>>
    /\ remotes' = Removed(remotes, TempTagPush)
    /\ tpc' = "raised"
    /\ gpc' = "raised"
    /\ UNCHANGED <<local_tag, remote_tag, tag_created, tagAtCall>>
    /\ TagFrame

\* manager.py line 173: remote.push raises
TagPushRaises ==
    /\ tpc = "push"
    /\ tag_log' = tag_log \o <<TagEvent("push", should_force_tag, "raised")>>
    /\ remotes' = Removed(remotes, TempTagPush)
    /\ tpc' = "raised"
    /\ gpc' = "raised"
    /\ UNCHANGED <<local_tag, remote_tag, tag_created, tagAtCall>>
    /\ TagFrame

NextRun ==
    \/ ConfigureEndpoint
    \/ GameSynchronize
    \/ LsRemote
    \/ LsRemoteFails
    \/ Fetch
    \/ FetchFails
    \/ GetSyncStatus
    \/ SyncNoRemote
    \/ SyncEqual
    \/ SyncAhead
    \/ SyncBehind
    \/ SyncDiverged
    \/ GameAnalyze
    \/ GameCommitChanges
    \/ CommitChangesRaises
    \/ LoopCommit
    \/ PushCall
    \/ PushFetch
    \/ PushFetchFails
    \/ PushRange
    \/ OtherPush
    \/ PushOk
    \/ PushRejected
    \/ PushRaises
    \/ PushSleep
    \/ PushReturn
    \/ LoopForce
    \/ LoopEnd
    \/ EnsureTagSkip
    \/ EnsureTagMove
    \/ EnsureTagCreate
    \/ EnsureTagRaises
    \/ TagPushCall
    \/ TagPushOk
    \/ TagPushRejected
    \/ TagPushRaises

SpecRun == InitRun /\ [][NextRun]_vars

(***************************************************************************)
(* The regression guard of process_game: the tags of the remote repository *)
(* are read, the versions of the candidate's platform are taken out of     *)
(* their names and the highest of them is compared with the candidate.     *)
(***************************************************************************)
\* the versions and the platforms a run is made with
Versions ==
    {<<"1", ".", "0">>, <<"1", ".", "1">>, <<"1", ".", "2">>, <<"1", ".", "3">>,
     <<"1", ".", "1", "0">>, <<"1", ".", "2", ".", "0">>, <<"2", ".", "0">>}
Platforms == {<<"p", "c">>, <<"m", "a", "c">>}

\* scanner.py line 26: f"v{version}-{platform}"
TagName(ver, plat) == <<"v">> \o ver \o <<"-">> \o plat

\* any platform gets the branch a new repository starts with
BranchNameFixed(plat) == <<"m", "a", "s", "t", "e", "r">>

\* scanner.py lines 28-30: f"platform/{self.platform}"
BranchName(plat) == <<"p", "l", "a", "t", "f", "o", "r", "m", "/">> \o plat

\* core.py line 33: self._branch_name = "master"
Master == <<"m", "a", "s", "t", "e", "r">>

\* manager.py line 42: f"-{metadata.platform}"
PlatformSuffix(plat) == <<"-">> \o plat

\* s.endswith(suffix)
EndsWith(s, suffix) ==
    /\ Len(s) >= Len(suffix)
    /\ SubSeq(s, Len(s) - Len(suffix) + 1, Len(s)) = suffix

\* s.replace(old, ""): every occurrence of old is taken out, left to right
RECURSIVE Replace(_, _)
Replace(s, old) ==
    LET p == Find(s, old)
    IN IF p = 0 THEN s
       ELSE SubSeq(s, 1, p - 1) \o Replace(SubSeq(s, p + Len(old), Len(s)), old)

\* the tags of every platform are taken, each without what follows its last dash
VersionsInAnyPlatform(names, plat) ==
    {Replace(SubSeq(t, 1, (CHOOSE p \in 1..Len(t) :
                              /\ t[p] = "-"
                              /\ \A q \in (p + 1)..Len(t) : t[q] # "-") - 1),
             <<"v">>) : t \in names}

\* manager.py lines 42-47
VersionsInPlatform(names, plat) ==
    {Replace(Replace(t, <<"v">>), PlatformSuffix(plat)) :
        t \in {n \in names : EndsWith(n, PlatformSuffix(plat))}}

\* s.split(".")
RECURSIVE Components(_)
Components(s) ==
    LET p == Find(s, <<".">>)
    IN IF p = 0 THEN <<s>>
       ELSE <<SubSeq(s, 1, p - 1)>> \o Components(SubSeq(s, p + 1, Len(s)))

\* the version is read as text: one number per character
ParseVersionText(v) == [i \in 1..Len(v) |-> Ord(v[i])]

\* parsing.py line 5, packaging.version.parse: the release of a version, one
\* integer for each of its components
ParseVersion(v) == [i \in 1..Len(Components(v)) |-> ParseInt(Components(v)[i])]

\* component i of a release, missing components count as 0
At(key, i) == IF i <= Len(key) THEN key[i] ELSE 0

\* packaging.version.Version.__lt__ on two releases
KeyLess(a, b) ==
    \E i \in 1..(Len(a) + Len(b)) :
        /\ At(a, i) < At(b, i)
        /\ \A j \in 1..(i - 1) : At(a, j) = At(b, j)

\* manager.py line 49: max(versions_in_platform, key=parse_version); of
\* several versions that parse to the same release any may be the one returned
MaxVersions(vs) ==
    {v \in vs : \A w \in vs : ~KeyLess(ParseVersion(v), ParseVersion(w))}

\* manager.py line 50: is_version_older(candidate, latest), strictly lower
\* in multi-component numeric order
IsVersionOlder(a, b) == KeyLess(ParseVersion(a), ParseVersion(b))

\* github_api.py lines 121-130: the names get_remote_tags returns
RemoteTagNames == {TagName(t[1], t[2]) : t \in remote_tags}

InitGuard ==
    /\ version \in Versions
    /\ platform \in Platforms
    /\ repo_exists \in BOOLEAN
    /\ remote_tags \in {T \in SUBSET (Versions \X Platforms) :
                           /\ Cardinality(T) <= MaxTags
                           /\ ~repo_exists => T = {}}
    /\ git_dir \in BOOLEAN
    /\ vpc = "construct"
    /\ latest_remote = <<>>
    /\ effects = {}
    /\ branch_name = Master
    /\ fs = <<>>
    /\ fsAtCall = <<>>
    /\ ChunkAtRest
    /\ PlanAtRest
    /\ GitAtRest
    /\ PushAtRest
    /\ TagAtRest

GuardFrame == UNCHANGED <<chunkVars, planVars, gitVars, pushVars, tagVars>>

\* manager.py lines 26-29, core.py lines 27-33 and 103-109: GitchunkRepo is
\* constructed, a folder without .git is initialised as a repository
GuardConstruct ==
    /\ vpc = "construct"
    /\ effects' = IF git_dir THEN effects ELSE effects \cup {"Repo.init"}
    /\ git_dir' = TRUE
    /\ vpc' = "scan"
    /\ UNCHANGED <<version, platform, remote_tags, repo_exists, latest_remote, branch_name>>
    /\ GuardFrame

\* manager.py lines 32-39: the folder is scanned, the user is looked up
GuardScan ==
    /\ vpc = "scan"
    /\ vpc' = "repo_exists"
    /\ UNCHANGED <<version, platform, remote_tags, repo_exists, git_dir, latest_remote,
                   effects, branch_name>>
    /\ GuardFrame

\* manager.py line 40
GuardRepoExists ==
    /\ vpc = "repo_exists"
    /\ vpc' = IF repo_exists THEN "tags" ELSE "passed"
    /\ UNCHANGED <<version, platform, remote_tags, repo_exists, git_dir, latest_remote,
                   effects, branch_name>>
    /\ GuardFrame

\* manager.py lines 41-57
GuardTags ==
    /\ vpc = "tags"
    /\ LET versions_in_platform == VersionsInPlatform(RemoteTagNames, platform)
       IN IF versions_in_platform = {}
          THEN /\ latest_remote' = latest_remote
               /\ vpc' = "passed"
          ELSE \E latest \in MaxVersions(versions_in_platform) :
                  /\ latest_remote' = latest
                  /\ vpc' = IF IsVersionOlder(version, latest)
                            THEN "regression" ELSE "passed"
    /\ UNCHANGED <<version, platform, remote_tags, repo_exists, git_dir, effects, branch_name>>
    /\ GuardFrame

\* manager.py line 41, github_api.py lines 127-130: the tags request is not
\* answered with 200, get_remote_tags returns no tag
GuardTagsUnavailable ==
    /\ vpc = "tags"
    /\ vpc' = "passed_unseen"
    /\ UNCHANGED <<version, platform, remote_tags, repo_exists, git_dir, latest_remote,
                   effects, branch_name>>
    /\ GuardFrame

\* manager.py line 60, github_api.py lines 90-98
GuardGetOrCreateRepo ==
    /\ vpc \in {"passed", "passed_unseen"}
    /\ effects' = IF repo_exists THEN effects ELSE effects \cup {"create_private_repo"}
    /\ repo_exists' = TRUE
    /\ vpc' = "clean"
    /\ UNCHANGED <<version, platform, remote_tags, git_dir, latest_remote, branch_name>>
    /\ GuardFrame

\* manager.py lines 63-65: cleaner.clean(), ensure_identity()
GuardClean ==
    /\ vpc = "clean"
    /\ effects' = effects \cup {"clean"}
    /\ vpc' = "configure"
    /\ UNCHANGED <<version, platform, remote_tags, repo_exists, git_dir, latest_remote,
                   branch_name>>
    /\ GuardFrame

\* manager.py line 67, core.py lines 41-46: the endpoint is configured with
\* the branch of the metadata
GuardConfigureEndpoint ==
    /\ vpc = "configure"
    /\ branch_name' = BranchName(platform)
    /\ effects' = effects \cup {"configure_endpoint"}
    /\ vpc' = "synchronize"
    /\ UNCHANGED <<version, platform, remote_tags, repo_exists, git_dir, latest_remote>>
    /\ GuardFrame

NextGuard ==
    \/ GuardConstruct
    \/ GuardScan
    \/ GuardRepoExists
    \/ GuardTags
    \/ GuardTagsUnavailable
    \/ GuardGetOrCreateRepo
    \/ GuardClean
    \/ GuardConfigureEndpoint

SpecGuard == InitGuard /\ [][NextGuard]_vars

(***************************************************************************)
(* Properties of the chunk store.                                          *)
(***************************************************************************)
Last(l) == l[Len(l)]

Range(l) == {l[n] : n \in 1..Len(l)}

SplitSteps == {"split_write", "split_trash", "split_rename", "split_unlink", "split_except"}

JoinSteps == {"join_loop", "join_concat", "join_trash", "join_rename", "join_unlink",
              "join_except"}

\* a call of split_file on an existing file is running, or has just ended
DuringSplit ==
    /\ op = "split"
    /\ Exists(fsAtCall, file_path)
    /\ \/ pc \in SplitSteps
       \/ pc = "idle" /\ log # <<>> /\ Last(log) \in {"split_returned", "split_raised"}

\* a call of join_files is running, or has just ended
DuringJoin ==
    /\ op = "join"
    /\ \/ pc \in JoinSteps
       \/ pc = "idle" /\ log # <<>> /\ Last(log) \in {"join_returned", "join_raised"}

\* the number a chunk file name ends with
PartNumber(name) == ParseInt(SubSeq(name, Len(name) - 2, Len(name)))

\* the chunk files of the folder f that carry the name `name`
ChunkFilesOf(f, name) ==
    {n \in DOMAIN f : \E k \in 1..999 : n = name \o <<".", "g", "c", ".">> \o Format03d(k)}

\* C1: split_file(f, partSize) followed by join_files on the folder leaves f
\* at its path with its original bytes, and no chunk file of f.
C1_RoundTrip ==
    (pc = "idle" /\ log = <<"split_returned", "join_returned">>)
        => /\ Exists(fs, file_path)
           /\ fs[file_path] = original
           /\ ChunkFilesOf(fs, file_path) = {}

\* C2: when split_file raises, the original is there unchanged and nothing
\* this split has written is left in the folder, finished part or temporary file.
C2_AllOrNothing ==
    (DuringSplit /\ pc = "idle" /\ result = "raised")
        => /\ Exists(fs, file_path)
           /\ fs[file_path] = original
           /\ written \cap DOMAIN fs = {}

\* C3: in every state of split_file the original exists or all N parts exist
\* under their final names.
C3_OriginalOrAllParts ==
    DuringSplit
        => \/ Exists(fs, file_path) /\ fs[file_path] = original
           \/ \A k \in 1..total_parts : Exists(fs, ChunkNameFinal(file_path, k))

C3_Witness ==
    /\ DuringSplit
    /\ result = "returned"
    /\ total_parts = 3
    /\ ~Exists(fs, file_path)

\* the parts of a group in the order of their numbers
RECURSIVE ByNumber(_)
ByNumber(group) ==
    IF group = {} THEN <<>>
    ELSE LET first == CHOOSE c \in group : \A d \in group : PartNumber(c) <= PartNumber(d)
         IN <<first>> \o ByNumber(group \ {first})

\* the highest part of the group carries the number of parts present
HighestIsCount(group) ==
    \E c \in group : /\ \A d \in group : PartNumber(d) <= PartNumber(c)
                     /\ PartNumber(c) = Cardinality(group)

\* the bytes of the parts of a group, in the order of their numbers
RECURSIVE Bytes(_, _)
Bytes(f, parts) ==
    IF parts = <<>> THEN <<>> ELSE f[Head(parts)] \o Bytes(f, Tail(parts))

\* the file of that name is as it was when the call started
Untouched(name) ==
    /\ Exists(fs, name) <=> Exists(fsAtCall, name)
    /\ Exists(fs, name) => fs[name] = fsAtCall[name]

\* C4: join_files joins a group only when the number of its highest part is
\* the number of its parts; any other group is skipped with its parts and its
\* target untouched and without an error, and when join_files returns every
\* complete group of the scan has been joined.
C4_OnlyCompleteGroups ==
    DuringJoin
        => LET scanned == Scan(fsAtCall)
           IN /\ skipped \cup joined \subseteq DOMAIN scanned
              /\ \A t \in joined : HighestIsCount(scanned[t])
              /\ (pc \in JoinSteps \ {"join_loop"}) => HighestIsCount(scanned[target_path])
              /\ \A t \in skipped :
                    /\ ~HighestIsCount(scanned[t])
                    /\ Untouched(t)
                    /\ \A c \in scanned[t] : Untouched(c)
              /\ (pc = "idle" /\ result = "returned")
                    => \A t \in DOMAIN scanned :
                          IF HighestIsCount(scanned[t])
                          THEN /\ t \in joined
                               /\ Exists(fs, t)
                               /\ fs[t] = Bytes(fsAtCall, ByNumber(scanned[t]))
                               /\ \A c \in scanned[t] : ~Exists(fs, c)
                          ELSE t \in skipped

C4_Witness ==
    /\ DuringJoin
    /\ pc = "idle"
    /\ result = "returned"
    /\ skipped # {}
    /\ joined # {}

\* C5: when a part that split_file produced is absent at join time, join_files
\* does not write the target and keeps the parts that remain.
C5_NoJoinWithMissingPart ==
    (DuringJoin /\ \E c \in Range(produced) : ~Exists(fsAtCall, c))
        => /\ Untouched(file_path)
           /\ \A c \in Range(produced) : Untouched(c)

\* C6: while join_files joins a complete group, all its parts exist or the
\* target holds the reconstructed bytes, and a target that was there before
\* is still in place or has been moved to the trash.
C6_JoinOrder ==
    (op = "join" /\ pc \in JoinSteps \ {"join_loop"})
        => /\ \/ \A c \in Range(chunks) : Untouched(c)
              \/ /\ Exists(fs, target_path)
                 /\ fs[target_path] = Bytes(fsAtCall, chunks)
           /\ Exists(fsAtCall, target_path)
                 => \/ Untouched(target_path)
                    \/ <<target_path, fsAtCall[target_path]>> \in trash

\* C7: after join_files has returned, no chunk file of a group it joined is
\* left, and a second join_files changes no file.
C7_JoinIdempotent ==
    /\ (DuringJoin /\ pc = "idle" /\ result = "returned")
          => \A t \in joined : \A c \in Scan(fsAtCall)[t] : ~Exists(fs, c)
    /\ (pc = "idle" /\ log = <<"join_returned", "join_returned">>)
          => /\ fs = fsAtCall
             /\ trash = trashAtCall
             /\ joined = {}

C7_Witness ==
    /\ pc = "idle"
    /\ log = <<"join_returned", "join_returned">>
    /\ Exists(fs, OtherName)

(***************************************************************************)
(* Properties of the planning functions.                                   *)
(***************************************************************************)
\* the changed paths of the status snapshot
Changed == Range(git_status.modified) \cup Range(git_status.untracked)
              \cup Range(git_status.deleted)

\* in how many places of the four lists a path stands
Places(p) ==
    Cardinality({n \in 1..Len(files_to_batch) : files_to_batch[n][1] = p})
    + Cardinality({n \in 1..Len(files_to_chunk) : files_to_chunk[n][1] = p})
    + Cardinality({n \in 1..Len(invalid_files) : invalid_files[n][1] = p})
    + Cardinality({n \in 1..Len(deleted_files) : deleted_files[n] = p})

\* C8, as stated: when filter_files_from_status returns, every changed path
\* of the snapshot is in exactly one of the four lists.
C8_ExactlyOnePartition ==
    ppc = "filter_done" => \A p \in Changed : Places(p) = 1

\* C8, amended: when filter_files_from_status returns, no changed path is in
\* two lists; a deleted path is in deleted_files; a modified or untracked path
\* whose file was there when the loop reached it is in one of the three other
\* lists; a modified or untracked path whose file had vanished is in no list.
C8_ExactlyOneUnlessVanished ==
    ppc = "filter_done"
        => /\ \A p \in Changed : Places(p) <= 1
           /\ \A p \in Range(git_status.deleted) :
                 Places(p) = 1 /\ p \in Range(deleted_files)
           /\ \A p \in Range(git_status.modified) \cup Range(git_status.untracked) :
                 /\ p \notin missed => Places(p) = 1 /\ p \notin Range(deleted_files)
                 /\ p \in missed => Places(p) = 0
           /\ \A p \in Paths \ Changed : Places(p) = 0

C8_Witness ==
    /\ ppc = "filter_done"
    /\ missed # {}
    /\ deleted_files # <<>>
    /\ Len(files_to_batch) + Len(files_to_chunk) + Len(invalid_files) = 1

SizeOf(file) ==
    LET n == CHOOSE k \in 1..Len(files_to_batch) : files_to_batch[k][1] = file
    IN files_to_batch[n][2]

RECURSIVE Weight(_)
Weight(batch) == IF batch = <<>> THEN 0 ELSE SizeOf(Head(batch)) + Weight(Tail(batch))

WithinBudget(batch) ==
    \/ Weight(batch) <= MAX_BATCH_SIZE_BYTES
    \/ Len(batch) = 1 /\ SizeOf(batch[1]) > MAX_BATCH_SIZE_BYTES

\* C10: every batch that batch_files closes or returns weighs at most the
\* budget, unless it has one member and that member alone is over the budget.
C10_BatchBudget ==
    ppc \in {"batch_loop", "batch_done"}
        => /\ \A n \in 1..Len(batchs) : WithinBudget(batchs[n])
           /\ \A n \in 1..Len(to_add) : WithinBudget(to_add[n])

C10_Witness ==
    /\ ppc = "batch_done"
    /\ \E n \in 1..Len(to_add) :
          Len(to_add[n]) = 1 /\ SizeOf(to_add[n][1]) > MAX_BATCH_SIZE_BYTES
    /\ \E n \in 1..Len(to_add) :
          Len(to_add[n]) = 2 /\ Weight(to_add[n]) = MAX_BATCH_SIZE_BYTES

\* the batches of a list, one after the other
RECURSIVE Flat(_)
Flat(list) == IF list = <<>> THEN <<>> ELSE Head(list) \o Flat(Tail(list))

\* the paths of the list given to batch_files, in its order
InputPaths == [n \in 1..Len(files_to_batch) |-> files_to_batch[n][1]]

\* C11: when batch_files returns, every entry of files_to_batch is in exactly
\* one add-batch, no batch is empty, and the batches one after the other are
\* the input list in its order.
C11_BatchCoverage ==
    ppc = "batch_done"
        => /\ Flat(to_add) = InputPaths
           /\ \A n \in 1..Len(to_add) : to_add[n] # <<>>
           /\ \A k \in 1..Len(files_to_batch) :
                 Cardinality({<<n, m>> \in (1..Len(to_add)) \X (1..MaxPaths + 1) :
                                 m <= Len(to_add[n])
                                 /\ to_add[n][m] = files_to_batch[k][1]}) = 1

C11_Witness ==
    /\ ppc = "batch_done"
    /\ Len(to_add) = 2
    /\ Len(files_to_batch) = 3
    /\ files_to_batch[1][2] > MAX_BATCH_SIZE_BYTES

\* the sizes of the files of a list of batches, batch after batch
SizesInOrder(list) == [n \in 1..Len(Flat(list)) |-> SizeOf(Flat(list)[n])]

\* C12: the add-batches process_game hands to the commit step list the files,
\* chunk parts and restore marker included, in non-decreasing order of size.
C12_AscendingSizes ==
    ppc = "batch_done"
        => \A n \in 1..(Len(SizesInOrder(to_add)) - 1) :
              SizesInOrder(to_add)[n] <= SizesInOrder(to_add)[n + 1]

(***************************************************************************)
(* Properties of create_commits.                                           *)
(***************************************************************************)
\* create_commits has been iterated to its end
FullyIterated == cpc = "commit_done"

\* the number of the first commit made for an add-batch, less one
Offset == IF to_delete # <<>> THEN 1 ELSE 0

\* the parent the k-th commit of the run must have
ParentInRun(k) == IF k = 1 THEN headAtCall ELSE yielded[k - 1]

\* the paths of the batch the k-th commit of the run was made for
BatchOf(k) ==
    IF to_delete # <<>> /\ k = 1 THEN Elements(to_delete)
    ELSE Elements(to_add[k - Offset])

\* the paths whose content differs between two trees
ChangedPaths(a, b) ==
    {p \in DOMAIN a \cup DOMAIN b :
        \/ p \notin DOMAIN a
        \/ p \notin DOMAIN b
        \/ a[p] # b[p]}

\* C13: create_commits, fully iterated, produces exactly one commit per batch
\* and no other: the commit of a non-empty deletion set comes first, then one
\* commit per add-batch in list order, each on top of the one before, so the
\* number of commits is len(to_add) + (1 if to_delete is non-empty else 0).
C13_OneCommitPerBatch ==
    FullyIterated =>
        /\ Len(yielded) = Len(to_add) + Offset
        /\ Len(commits) = headAtCall + Len(yielded)
        /\ head = IF yielded = <<>> THEN headAtCall ELSE Last(yielded)
        /\ \A k \in 1..Len(yielded) :
              /\ yielded[k] = headAtCall + k
              /\ commits[yielded[k]].parent = ParentInRun(k)
              /\ commits[yielded[k]].msg =
                    IF to_delete # <<>> /\ k = 1
                    THEN Message(Delete, 1, Len(to_add) + 1, Len(to_delete))
                    ELSE Message(Add, k, Len(to_add) + Offset, Len(to_add[k - Offset]))

\* a run with deletions and two add-batches has made its three commits
C13_Witness ==
    /\ FullyIterated
    /\ to_delete # <<>>
    /\ Len(to_add) = 2
    /\ Len(yielded) = 3

\* C14: every path that a commit made by create_commits changes relative to
\* its parent commit is a path of its own batch: no path of another batch and
\* no change that was staged before the run is included.
C14_OnlyOwnBatch ==
    \A k \in 1..Len(yielded) :
        ChangedPaths(TreeOf(commits[yielded[k]].parent), commits[yielded[k]].tree)
            \subseteq BatchOf(k)

\* the path-by-path removal of the deletion batch stopped at a path that
\* could not be removed
RemovalFailed == cpc \notin {"remove", "remove_each"} /\ ridx \in 1..Len(to_delete)

\* C15: if removing or staging any path of a batch fails, no commit is
\* produced for that batch: a yielded delete commit follows no failed removal
\* and holds none of the paths of to_delete, and a yielded add commit holds
\* every path of its batch as it is in the working tree.
C15_NoPartialBatch ==
    \A k \in 1..Len(yielded) :
        IF to_delete # <<>> /\ k = 1
        THEN /\ ~RemovalFailed
             /\ Elements(to_delete) \cap DOMAIN commits[yielded[k]].tree = {}
        ELSE \A p \in BatchOf(k) :
                /\ p \in DOMAIN commits[yielded[k]].tree
                /\ commits[yielded[k]].tree[p] = worktree[p]

(***************************************************************************)
(* Properties of the reconciliation with the remote.                       *)
(***************************************************************************)
\* sync_with_remote_shallow has returned in state st and nothing ran since
Returned(st) == spc = "returned" /\ gpc = "in_sync" /\ sync_status = st

\* git ls-remote failed although the remote has the branch
LsRemoteFailed == sync_status = "NO_REMOTE" /\ remote_tip # 0

\* the state the two histories are in: the local one as the repository had it
\* at the call, the remote one in full
Relation ==
    IF remote_tip = 0 THEN "NO_REMOTE"
    ELSE IF headAtCall = 0 THEN "BEHIND"
    ELSE IF headAtCall = remote_tip THEN "EQUAL"
    ELSE IF remote_tip \in History(headAtCall, shallowAtCall) THEN "AHEAD"
    ELSE IF headAtCall \in History(remote_tip, {}) THEN "BEHIND"
    ELSE "DIVERGED"

\* C16: get_sync_status returns NO_REMOTE when the remote branch is absent,
\* otherwise BEHIND for a local repository without commits, EQUAL when the
\* local head is the remote tip, AHEAD when the remote tip is a proper
\* ancestor of the local head, BEHIND when the local head is a proper ancestor
\* of the remote tip, and DIVERGED when neither is an ancestor of the other,
\* for every pair of histories, with the remote fetched at depth 1.
C16_StatusIsRelation ==
    (spc = "match" /\ ~LsRemoteFailed) => sync_status = Relation

C18_SoftReset ==
    Returned("DIVERGED") =>
        /\ head = remote_tip
        /\ (History(headAtCall, shallowAtCall) \ History(remote_tip, {}))
              \cap History(head, shallow) = {}
        /\ index = indexAtCall
        /\ worktree = worktreeAtCall

\* two histories with no common tip: the branch has left a local commit that
\* the remote does not have
C18_Witness ==
    /\ Returned("DIVERGED")
    /\ headAtCall \notin History(remote_tip, {})
    /\ remote_tip \notin History(headAtCall, {})
    /\ head # headAtCall
    /\ index # TreeOf(head)

\* C19: in states NO_REMOTE, EQUAL and AHEAD sync_with_remote_shallow leaves
\* the local head, the local branch history, the index and the working tree
\* unchanged; it returns False exactly in NO_REMOTE and True otherwise.
C19_NothingChanged ==
    /\ (Returned("NO_REMOTE") \/ Returned("EQUAL") \/ Returned("AHEAD")) =>
          /\ head = headAtCall
          /\ History(head, shallow) = History(headAtCall, shallowAtCall)
          /\ index = indexAtCall
          /\ worktree = worktreeAtCall
    /\ spc = "returned" => (sync_return = "False" <=> sync_status = "NO_REMOTE")
    /\ spc = "returned" => sync_return \in {"False", "True"}

\* C20: after sync_with_remote_shallow returns with an existing remote branch
\* the local head is the remote tip or has it as an ancestor; and in
\* process_game the reconciliation runs once, before the status is classified
\* and before commit_changes is called.
C20_AlignedOnce ==
    /\ (spc = "returned" /\ sync_status \in {"EQUAL", "AHEAD", "BEHIND", "DIVERGED"}) =>
          remote_tip \in History(head, shallow)
    /\ gpc \in {"analyzed", "commit_changes"} => (sync_runs = 1 /\ spc = "returned")
    /\ spc # "returned" =>
          /\ git_status = [modified |-> <<>>, untracked |-> <<>>, deleted |-> <<>>]
          /\ yielded = <<>>
    /\ sync_runs <= 1

\* process_game has reached commit_changes after a reconciliation that moved
\* the branch
C20_Witness ==
    /\ gpc = "commit_changes"
    /\ sync_return = "True"
    /\ head # headAtCall
    /\ sync_runs = 1

(***************************************************************************)
(* Properties of push_commits_one_by_one.                                  *)
(***************************************************************************)
IsPush(e) == e.ev = "push"
IsSleep(e) == e.ev = "sleep"

\* the pushes of the call so far, and the commits they carried, in order
Pushes == SelectSeq(plog, IsPush)
PushedCommits == [n \in 1..Len(Pushes) |-> Pushes[n].commit]

\* how many times the call has slept
Sleeps == Len(SelectSeq(plog, IsSleep))

\* what the fetch of the call found on the remote branch, 0 for no branch
Fetched == plog[1].commit

\* the call has returned
PushDone == upc = "done"

\* C21: push_commits_one_by_one pushes exactly the commits in
\* remote_tip..local_head (every commit of the local branch when the remote
\* ref is absent), each in its own push, parents before children, each once.
C21_EachCommitOnceOldestFirst ==
    PushDone =>
        /\ Elements(PushedCommits) = RevRange(head, Fetched, shallow)
        /\ Len(PushedCommits) = Cardinality(RevRange(head, Fetched, shallow))
        /\ \A i \in 1..Len(PushedCommits) : \A j \in 1..Len(PushedCommits) :
              i < j => /\ PushedCommits[i] # PushedCommits[j]
                       /\ PushedCommits[i] \in History(PushedCommits[j], {})

\* a call that found a branch on the remote and pushed two commits on top
C21_Witness ==
    /\ PushDone
    /\ Fetched # 0
    /\ Len(Pushes) = 2
    /\ \A n \in 1..Len(Pushes) : Pushes[n].res = "ok"
    /\ remote_tip = head

\* C22: within one call the cooldown sleep happens once after each push
\* except the last: never before the first push, never after the last one,
\* max(n - 1, 0) times in a call that pushes n commits.
C22_SleepOnlyBetweenPushes ==
    /\ \A k \in 1..Len(plog) :
          IsSleep(plog[k]) =>
             /\ k > 1
             /\ IsPush(plog[k - 1])
             /\ k < Len(plog) => IsPush(plog[k + 1])
             /\ pidx <= Len(rev_list)
    /\ PushDone =>
          Sleeps = IF Len(Pushes) = 0 THEN 0 ELSE Len(Pushes) - 1

\* a call that pushed three commits and slept twice
C22_Witness ==
    /\ PushDone
    /\ Len(Pushes) = 3
    /\ Sleeps = 2

\* C23: if the push of commit k is rejected or fails, no later commit of the
\* sequence is pushed and the call ends in error: nothing follows a rejected
\* push, and a call that returns has had no push rejected.
C23_RejectionAborts ==
    /\ \A k \in 1..Len(plog) :
          (IsPush(plog[k]) /\ plog[k].res = "rejected") => k = Len(plog)
    /\ PushDone => \A k \in 1..Len(plog) : plog[k].res # "rejected"

\* C24: the remote branch tip only advances: every commit a push puts on the
\* remote branch is a descendant of the commit that was there before.
C24_OnlyAdvances ==
    \A k \in 1..Len(plog) :
        (IsPush(plog[k]) /\ plog[k].res = "ok") =>
            \/ plog[k].old = 0
            \/ plog[k].old \in History(plog[k].commit, {})

(***************************************************************************)
(* Properties of the temporary remote and of the tag phase.                *)
(***************************************************************************)
\* one of the three operations that use ephemeral_remote is under way
InEphemeral ==
    \/ spc \in {"ls_remote", "fetch", "classify", "match"}
    \/ upc \in {"fetch", "range", "push", "sleep", "exit"}
    \/ tpc = "push"

\* one of them has been called and has returned or raised
EphemeralLeft ==
    /\ ~InEphemeral
    /\ \/ spc \in {"returned", "sync_raised"}
       \/ upc \in {"done", "raised"}
       \/ tpc \in {"done", "raised"}

\* C25: after sync_with_remote_shallow, push_commits_one_by_one or
\* push_tag_securely returns or raises, the repository has no remote named
\* temp_sync or temp_tag_push and no remote definition, origin included,
\* contains the token.
C25_NoTokenLeft ==
    EphemeralLeft =>
        \A r \in remotes : /\ r[1] \notin {TempSync, TempTagPush}
                           /\ r[2] # AuthUrl

\* the tag push raised in a repository whose origin carried the token and
\* that held a leftover temp_sync from an earlier run
C25_Witness ==
    /\ tpc = "raised"
    /\ upc = "done"
    /\ spc = "returned"
    /\ remotes = {<<Origin, CleanUrl>>}

IsTagPush(e) == e.ev = "push"
TagPushes == SelectSeq(tag_log, IsTagPush)

\* _ensure_tag has returned
EnsureTagReturned == tag_created \in {"True", "False"}

\* C29: _ensure_tag creates an absent tag at the current head; leaves a tag
\* that exists untouched and unpushed when the run made no new commit;
\* deletes and recreates at the head a tag that exists and points to another
\* commit when the run made commits; whenever it returns True the tag points
\* to the current head.
C29_EnsureTag ==
    EnsureTagReturned =>
        /\ tagAtCall = 0 =>
              /\ tag_created = "True"
              /\ local_tag = head
              /\ tag_log[1] = TagEvent("create", FALSE, "none")
        /\ (tagAtCall # 0 /\ ~should_force_tag) =>
              /\ tag_created = "False"
              /\ local_tag = tagAtCall
              /\ tag_log = <<>>
              /\ tpc # "push"
        /\ (tagAtCall # 0 /\ should_force_tag /\ tagAtCall # head) =>
              /\ tag_created = "True"
              /\ local_tag = head
              /\ Len(tag_log) >= 2
              /\ tag_log[1] = TagEvent("delete", FALSE, "none")
              /\ tag_log[2] = TagEvent("create", FALSE, "none")
        /\ tag_created = "True" => local_tag = head

\* a tag of an earlier commit was moved to the commit the run made
C29_Witness ==
    /\ tag_created = "True"
    /\ tagAtCall # 0
    /\ tagAtCall # head
    /\ should_force_tag
    /\ local_tag = head

\* C30: the tag is pushed with a forced ref update only when it already
\* existed locally and was deleted and recreated on a new commit; a tag newly
\* created in this run is pushed without force, also when the run made commits.
C30_ForcedOnlyWhenMoved ==
    \A k \in 1..Len(tag_log) :
        (IsTagPush(tag_log[k]) /\ tag_log[k].forced) => tagAtCall # 0

(***************************************************************************)
(* Properties of the regression guard.                                     *)
(***************************************************************************)
\* the versions tagged on the remote for the candidate's platform
SameChannel == {t[1] : t \in {u \in remote_tags : u[2] = platform}}

\* the candidate is lower than a version tagged for its platform
Regression == \E v \in SameChannel : IsVersionOlder(version, v)

\* the guard is behind the run
GuardLeft == vpc \in {"passed", "passed_unseen", "clean", "configure", "synchronize"}

\* C26: if the candidate is strictly lower than the highest version tagged on
\* the remote for its platform, process_game raises the regression error and
\* has written nothing up to that point: no local repository initialised, no
\* file cleaned, no remote repository created.
C26_RegressionBeforeAnyWrite ==
    /\ vpc = "regression" => effects = {}
    /\ GuardLeft => ~Regression

\* C27: tags of another platform never make process_game raise the
\* regression error, whatever their versions; only the tags of the
\* candidate's platform are compared.
C27_ChannelsIndependent ==
    /\ vpc = "regression" => Regression
    /\ latest_remote # <<>> => latest_remote \in SameChannel
    /\ (vpc = "passed" /\ latest_remote = <<>>) => SameChannel = {}

\* the other platform has a higher version and the candidate passed the guard
\* against the tags of its own platform
C27_Witness ==
    /\ vpc = "passed"
    /\ latest_remote # <<>>
    /\ \E t \in remote_tags : t[2] # platform /\ IsVersionOlder(version, t[1])

V10 == <<"1", ".", "0">>
V11 == <<"1", ".", "1">>
V12 == <<"1", ".", "2">>
V13 == <<"1", ".", "3">>
V110 == <<"1", ".", "1", "0">>
V120 == <<"1", ".", "2", ".", "0">>

\* the guard has compared the candidate with the tags of its platform
Compared == vpc \in {"passed", "regression"} /\ latest_remote # <<>>

\* C28: the guard compares versions component by component as integers: with
\* same-channel tags {1.0, 1.2} candidate 1.1 is rejected and 1.3 accepted,
\* 1.10 ranks above 1.2, and a candidate equal to the highest is accepted.
C28_NumericOrder ==
    Compared =>
        /\ (SameChannel = {V10, V12} /\ version = V11) => vpc = "regression"
        /\ (SameChannel = {V10, V12} /\ version = V13) => vpc = "passed"
        /\ SameChannel = {V110, V12} => latest_remote = V110
        /\ (SameChannel \in {{V12}, {V10, V12}} /\ version = V110) => vpc = "passed"
        /\ (V110 \in SameChannel /\ version = V12) => vpc = "regression"
        /\ version = latest_remote => vpc = "passed"
        /\ (SameChannel = {V12} /\ version = V120) => vpc = "passed"
        /\ (SameChannel = {V120} /\ version = V12) => vpc = "passed"

\* tags 1.10 and 1.2 on the candidate's platform, candidate 1.10 accepted
C28_Witness ==
    /\ vpc = "passed"
    /\ SameChannel = {V110, V12}
    /\ version = V110
    /\ latest_remote = V110

(***************************************************************************)
(* Properties of the target branch.                                        *)
(***************************************************************************)
\* the endpoint of the run has been configured
Configured == vpc = "synchronize"

\* C31: process_game configures the endpoint with the branch
\* platform/<platform>, whatever the version, so that runs with different
\* platforms never get the same branch.
C31_BranchOfPlatform ==
    Configured =>
        /\ branch_name = <<"p", "l", "a", "t", "f", "o", "r", "m", "/">> \o platform
        /\ \A q \in Platforms : q # platform => BranchName(q) # branch_name

\* a run on the mac platform has configured platform/mac
C31_Witness ==
    /\ Configured
    /\ platform = <<"m", "a", "c">>
    /\ branch_name = <<"p", "l", "a", "t", "f", "o", "r", "m", "/", "m", "a", "c">>

(***************************************************************************)
(* Properties of a run that follows a run that stopped.                    *)
(***************************************************************************)
\* the run is over, without an error
RunFinished == gpc = "finished"

\* no push of the run was rejected and nobody else moved the remote branch
Undisturbed ==
    /\ moved = 0
    /\ \A k \in 1..Len(plog) : plog[k].res # "rejected"

\* C32: a run on a directory whose earlier run stopped after some of its
\* commits were pushed classifies the state as AHEAD, discards no local
\* commit and pushes the commits not yet on the remote: when it is over the
\* remote branch is at the local head.
C32_ResumesPush ==
    (RunFinished /\ sync_status = "AHEAD" /\ Undisturbed) =>
        /\ headAtCall \in History(head, {})
        /\ remote_tip = head

(***************************************************************************)
(* Properties of the archival of a report: invalid files and chunks.       *)
(***************************************************************************)
\* the paths of the invalid files of the report
InvalidPaths == {invalid_files[k][1] : k \in 1..Len(invalid_files)}

\* the paths of the batches that are handed over for commit
BatchedPaths == UNION {Elements(to_add[b]) : b \in 1..Len(to_add)}

\* C33: an invalid file is never part of a commit; when process_game finds an
\* invalid file it ends the run without splitting a file, without batching
\* and without creating a commit, pushing or creating a tag.
C33_InvalidEndsRun ==
    /\ InvalidPaths \cap BatchedPaths = {}
    /\ invalid_files # <<>> =>
          /\ ppc \in {"archive_check", "archive_returned"}
          /\ idx = 0
          /\ has_chunks = "unset"
          /\ batchs = <<>>
          /\ to_add = <<>>
          /\ to_delete = <<>>
          /\ commits = <<>>
          /\ plog = <<>>
          /\ local_tag = 0

\* a run has returned on a report with an invalid file and a chunk candidate
C33_Witness ==
    /\ ppc = "archive_returned"
    /\ invalid_files # <<>>
    /\ files_to_chunk # <<>>

(***************************************************************************)
(* batch_files is greedy.                                                  *)
(***************************************************************************)
\* a batch is closed only when the next file would take it over the budget,
\* and a file over the budget is a batch of its own
GreedyBatches ==
    ppc = "batch_done" =>
        /\ \A n \in 1..(Len(to_add) - 1) :
              Weight(to_add[n]) + SizeOf(to_add[n + 1][1]) > MAX_BATCH_SIZE_BYTES
        /\ \A k \in 1..Len(files_to_batch) :
              files_to_batch[k][2] > MAX_BATCH_SIZE_BYTES =>
                 \E n \in 1..Len(to_add) : to_add[n] = <<files_to_batch[k][1]>>

\* C34: batch_files is greedy in arrival order: for every two consecutive
\* add-batches the size of the earlier one plus the size of the first file of
\* the later one is over the budget; a file that alone is over the budget is
\* a batch of its own; and the function terminates on every input.
C34_GreedyAndTerminates == []GreedyBatches /\ <>(ppc = "batch_done")

\* three batches were returned, the one in the middle a single file over the
\* budget
C34_Witness ==
    /\ ppc = "batch_done"
    /\ Len(to_add) = 3
    /\ Len(to_add[2]) = 1
    /\ SizeOf(to_add[2][1]) > MAX_BATCH_SIZE_BYTES

\* the text of s before, and after, the first occurrence of sub
TextBefore(s, sub) == SubSeq(s, 1, Find(s, sub) - 1)

TextAfter(s, sub) == SubSeq(s, Find(s, sub) + Len(sub), Len(s))

\* "%Y-%m-%d %H:%M:%S": digits, with the separators at their places
IsTimestamp(s) ==
    /\ Len(s) = 19
    /\ \A p \in 1..19 :
          IF p \in {5, 8} THEN s[p] = "-"
          ELSE IF p = 11 THEN s[p] = " "
          ELSE IF p \in {14, 17} THEN s[p] = ":"
          ELSE IsDigit(s[p])

\* C35: the message of the i-th commit of one create_commits call reads
\* 'Batch i/n | <Add|Delete> k files | <timestamp>': i is the position of the
\* commit in the call, n is the number of add-batches plus one when there are
\* deletions (and the number of commits of a call that ran to its end), the
\* kind is Delete for the deletion commit only, k is the number of paths of
\* the batch the commit was made for.
C35_MessageShape ==
    /\ FullyIterated => Len(yielded) = Len(to_add) + Offset
    /\ \A k \in 1..Len(yielded) :
          LET m == commits[yielded[k]].msg
              bar == <<" ", "|", " ">>
              first == TextBefore(m, bar)
              second == TextBefore(TextAfter(m, bar), bar)
              third == TextAfter(TextAfter(m, bar), bar)
              steps == TextAfter(first, <<"B", "a", "t", "c", "h", " ">>)
          IN /\ Find(first, <<"B", "a", "t", "c", "h", " ">>) = 1
             /\ ParseInt(TextBefore(steps, <<"/">>)) = k
             /\ ParseInt(TextAfter(steps, <<"/">>)) = Len(to_add) + Offset
             /\ TextBefore(second, <<" ">>) = (IF Offset = 1 /\ k = 1 THEN Delete ELSE Add)
             /\ TextAfter(second, <<" ">>)
                   = Decimal(IF Offset = 1 /\ k = 1 THEN Len(to_delete)
                             ELSE Len(to_add[k - Offset]))
                        \o <<" ", "f", "i", "l", "e", "s">>
             /\ IsTimestamp(third)

\* a call with deletions and two add-batches ran to its end: three commits
C35_Witness ==
    /\ FullyIterated
    /\ to_delete # <<>>
    /\ Len(to_add) = 2
    /\ Len(yielded) = 3

\* commit_changes is over, with a value or with an exception
ChangesEnded == cpc \in {"changes_returned", "changes_raised"}

\* C36: commit_changes called with a batch that is not empty returns, and
\* when it has returned the commits of all batches exist, one per batch in
\* order, their number being the value returned; called with no add-batch
\* and no deletion it returns 0 and no commit exists that did not before.
C36_CommitsAllAndCounts ==
    ChangesEnded =>
        IF NothingToCommit(to_add, to_delete)
        THEN /\ cpc = "changes_returned"
             /\ head = headAtCall
             /\ yielded = <<>>
        ELSE /\ cpc = "changes_returned"
             /\ Len(yielded) = Len(to_add) + Offset
             /\ head = Last(yielded)

\* the commits of this run that the branch on the remote does not hold
Unpublished == {c \in RunMade : c \notin History(remote_tip, {})}

\* the loop of process_game is back at the generator after a push call
NextBatchDue == gpc = "commit_changes" /\ should_force_tag

\* C37: the commit of a batch is on the remote before the next batch is
\* staged, and at no time is more than one commit of the run missing there.
C37_PublishedIncrementally ==
    /\ Cardinality(Unpublished) <= 1
    /\ NextBatchDue => Unpublished = {}

\* C38: in the log of one run, two pushes never follow each other without a
\* sleep between them, whether one call of push issued both or two calls did.
C38_CooldownBetweenPushes ==
    \A k \in 1..(Len(run_log) - 1) :
        run_log[k] = "push" => run_log[k + 1] = "sleep"

\* how many entries of a list of <<path, size>> are the entry e
Listings(list, e) == Cardinality({n \in 1..Len(list) : list[n] = e})

\* how many entries of a list of <<path, size>> name the path p
Namings(list, p) == Cardinality({n \in 1..Len(list) : list[n][1] = p})

\* C39: when process_game comes to batching, every chunk candidate is in the
\* deletion set and each of its parts is in the add list once, with the size
\* of the part; the restore marker is in the add list when a file was split;
\* files_to_chunk is empty when batch_files is called; and a run without
\* chunk candidate comes to batching, no exception ends it before.
C39_ChunkExpansion ==
    /\ ppc = "archive_batch" =>
          /\ \A n \in 1..Len(files_to_chunk) :
                LET p == files_to_chunk[n][1]
                    size == files_to_chunk[n][2]
                IN /\ p \in Elements(deleted_files)
                   /\ \A k \in 1..TotalParts(size, chunk_limit) :
                         /\ Namings(files_to_batch, PartPath(p, k)) = 1
                         /\ Listings(files_to_batch,
                                     <<PartPath(p, k),
                                       IF k < TotalParts(size, chunk_limit)
                                       THEN chunk_limit
                                       ELSE size - (k - 1) * chunk_limit>>) = 1
          /\ files_to_chunk # <<>> => Namings(files_to_batch, RestorePath) = 1
    /\ ppc = "batch_call" => files_to_chunk = <<>>
    /\ ppc = "archive_raised" => files_to_chunk # <<>>

\* the files of the folder that the head did not hold as they were, when
\* synchronize was called
Uncommitted ==
    {p \in DOMAIN worktreeAtCall :
        \/ p \notin DOMAIN TreeOf(headAtCall)
        \/ TreeOf(headAtCall)[p] # worktreeAtCall[p]}

\* the paths the status read after the reconciliation lists as changed
Reported ==
    Elements(git_status.modified) \cup Elements(git_status.untracked)
        \cup StagedPaths(head, index)

\* the files of the folder that the head holds as they are
AsInHead == {p \in DOMAIN worktree \cap DOMAIN TreeOf(head) : TreeOf(head)[p] = worktree[p]}

\* the status was read after synchronize returned
Analyzed == gpc = "analyzed" /\ spc = "returned"

\* C40 as stated: synchronize changes, creates and deletes no file of the
\* working tree in any sync state, and every file that was uncommitted before
\* it is listed as a change by the status read after it.
C40_UncommittedStillReported ==
    /\ worktree = worktreeAtCall
    /\ Analyzed => Uncommitted \subseteq Reported

\* C40, amended: synchronize changes, creates and deletes no file of the
\* working tree in any sync state, and every file that was uncommitted before
\* it is listed as a change by the status read after it, unless the commit
\* the branch was reset to holds the file with the very content it has.
C40_WorktreeKept ==
    /\ worktree = worktreeAtCall
    /\ Analyzed => /\ Uncommitted \ AsInHead \subseteq Reported
                   /\ Reported \cap AsInHead = {}
                   /\ (sync_status \in {"NO_REMOTE", "EQUAL", "AHEAD"}
                          => Uncommitted \subseteq Reported)

\* the branch was behind and has been reset, the folder holds an edited file
\* and the status lists it
C40_Witness ==
    /\ Analyzed
    /\ sync_status = "BEHIND"
    /\ head # headAtCall
    /\ Uncommitted # {}
    /\ Uncommitted \subseteq Reported
    /\ worktree # TreeOf(head)

====
